---- MODULE Spec2Model ----
(***************************************************************************)
(* Model of the union-action pipeline: the KantianEthicalAnalyzer keyword  *)
(* tests, the ViolationToModuleMapper / KantianToKOERSAdapter and the      *)
(* /generate-koers-survey endpoint with its survey deployers.              *)
(* Around it the ChatOps agent: its /webhook handler and Union Action      *)
(* client, its /health endpoint with the health-check cache and the error  *)
(* tracker, the retry loop of the Enjin client and the ChatopsAgent        *)
(* process.                                                                *)
(*                                                                         *)
(* Texts are sequences of tokens.  A token is a fragment of a string (a    *)
(* word, a prefix such as "in", or a single space); substring containment  *)
(* of the source (`keyword in text`) is contiguous containment of the      *)
(* keyword's fragments, str.lower() maps each fragment to its lower-case   *)
(* form and len() adds the fragments' character counts.                    *)
(***************************************************************************)
EXTENDS Integers, Sequences, FiniteSets, TLC

VARIABLES
    case_input,     \* argument of KantianEthicalAnalyzer.analyze
    analysis,       \* what the latest call of analyze returned or raised
    earlier,        \* what the call of analyze before it returned or raised
    utcnow,         \* the clock datetime.utcnow() reads
    koers,          \* state of the /generate-koers-survey service
    webhook,        \* state of the ChatOps agent and its /webhook handler
    health,         \* the agent's clock, HealthCheckCache and latest answer
    tracker,        \* the agent's ErrorTracker
    enjin,          \* a call of EnjinPlatformClient._execute_with_retry
    chatops         \* a ChatopsAgent and the task running its start()

analyzer_vars == <<case_input, analysis, earlier, utcnow>>
core_vars == <<analyzer_vars, koers, webhook>>
aux_vars == <<health, tracker, enjin, chatops>>
vars == <<core_vars, aux_vars>>

(***************************************************************************)
(* Bounds.                                                                 *)
(***************************************************************************)
MaxSceneLen == 2    \* longest scene text (in fragments) of the scene family
MaxClock == 1       \* latest instant the clock reaches
MaxMaximLen == 3    \* longest maxim (in fragments) of the maxim family
MaxDescriptionLen == 3  \* longest description (in fragments) of the description family
MaxBodyLen == 4     \* longest webhook message body (in fragments)
MaxRequests == 2    \* webhook requests handled in one run
MaxElapse == 9      \* longest time that passes between two cache operations
MaxCacheClock == 12 \* latest time.time() of a cache operation
MaxErrorRun == 6    \* most errors tracked in one run of failed requests
MaxTracked == 12    \* most errors tracked while /health is watched
MaxTrackerRun == 60 \* most track_error calls in a row with one category
MaxRuns == 4        \* runs of track_error calls on one tracker
MaxResets == 1      \* resets of one tracker
MaxRetryAttempts == 3  \* largest PLATFORM_RETRY_ATTEMPTS
MaxStops == 4       \* calls of ChatopsAgent.stop()

(***************************************************************************)
(* Strings.                                                                *)
(***************************************************************************)
SP == " "

\* str.lower() on one fragment
lower_token(t) ==
    CASE t = "Appeal"     -> "appeal"
      [] t = "Cost"       -> "cost"
      [] t = "Can"        -> "can"
      [] t = "Denied"     -> "denied"
      [] t = "Training"   -> "training"
      [] t = "Fair"       -> "fair"
      [] t = "Optional"   -> "optional"
      [] t = "Refused"    -> "refused"
      [] t = "Healthcare" -> "healthcare"
      [] t = "Professional" -> "professional"
      [] OTHER            -> t

\* number of characters of one fragment
token_len(t) ==
    CASE t \in {SP, "|", "s"}                     -> 1
      [] t \in {"no", "in", "be", "to"}           -> 2
      [] t \in {"can", "Can", "may"}              -> 3
      [] t \in {"cost", "Cost", "fair", "Fair", "duty", "care"} -> 4
      [] t \in {"appeal", "Appeal", "denied", "Denied"} -> 6
      [] t \in {"refused", "Refused", "patient"}  -> 7
      [] t \in {"training", "Training", "optional", "Optional"} -> 8
      [] t = "workplace"                          -> 9
      [] t \in {"consistent", "constraint", "healthcare", "Healthcare"} -> 10
      [] t \in {"professional", "Professional"}   -> 12
      [] t = "x*499"                              -> 499
      [] t = "x*1999"                             -> 1999
      [] OTHER                                    -> 5

\* str.lower()
lower(text) == [i \in 1..Len(text) |-> lower_token(text[i])]

\* len(str)
RECURSIVE str_len(_)
str_len(text) ==
    IF text = <<>> THEN 0 ELSE token_len(Head(text)) + str_len(Tail(text))

\* `keyword in text`
contains(text, keyword) ==
    \E i \in 1..(Len(text) - Len(keyword) + 1) :
        SubSeq(text, i, i + Len(keyword) - 1) = keyword

\* any(keyword in text for keyword in keywords)
any_keyword_in(text, keywords) ==
    \E k \in 1..Len(keywords) : contains(text, keywords[k])

\* dict.get(key, default)
dict_get(d, key, default) == IF key \in DOMAIN d THEN d[key] ELSE default

\* all texts of at most n fragments over an alphabet
TextsUpTo(alphabet, n) == UNION {[1..k -> alphabet] : k \in 0..n}

\* a dict holding the present ones of the given optional entries
opt_entry(key, o) == IF o.present THEN key :> o.val ELSE <<>>
Absent == [present |-> FALSE]
Present(v) == [present |-> TRUE, val |-> v]
Optional(S) == {Absent} \cup {Present(v) : v \in S}

\* a value that is a dict, and one that is of another type (a string, a list)
Dict(d) == [kind |-> "dict", val |-> d]
NonDict == [kind |-> "other"]
isinstance_dict(v) == v.kind = "dict"

(***************************************************************************)
(* KantianEthicalAnalyzer (services/kantian_analyzer.py).                  *)
(***************************************************************************)
non_universalizable_keywords == <<
    <<"convenient">>, <<"when", SP, "necessary">>, <<"optional">>,
    <<"discretionary">>, <<"at", SP, "will">>, <<"if", SP, "needed">>,
    <<"can", SP, "be">>, <<"may", SP, "be">> >>

dignity_violation_keywords == <<
    <<"denied">>, <<"refused">>, <<"rejected">>, <<"dismissed">>, <<"ignored">>,
    <<"overlooked">>, <<"excluded">>, <<"prevented">>, <<"blocked">> >>

development_keywords == <<
    <<"training">>, <<"development">>, <<"learning">>, <<"education">>,
    <<"progression">>, <<"advancement">>, <<"opportunity">>, <<"growth">> >>

pressure_keywords == <<
    <<"pressure">>, <<"cost">>, <<"budget">>, <<"efficiency">>, <<"convenient">>,
    <<"reduction">>, <<"constraint">>, <<"operational">>, <<"deadline">> >>

violation_keywords == <<
    <<"arbitrary">>, <<"in", "consistent">>, <<"unclear">>,
    <<"no", SP, "explanation">>, <<"denied", SP, "without">>,
    <<"refused", SP, "without">>, <<"no", SP, "appeal">>, <<"no", SP, "recourse">> >>

justice_keywords == <<
    <<"consistent">>, <<"transparent">>, <<"appeal">>, <<"review">>,
    <<"fair", SP, "process">>, <<"explanation", SP, "provided">>,
    <<"documented", SP, "procedure">> >>

\* mutant: action.description is required too
validate_case_input_description(case) ==
    IF \E k \in {"maxim", "scene", "agent", "action"} : k \notin DOMAIN case
        THEN "ValueError"
    ELSE IF \E k \in {"scene", "agent", "action"} : ~isinstance_dict(case[k])
        THEN "ValueError"
    ELSE IF "description" \notin DOMAIN case["action"].val THEN "ValueError"
    ELSE "none"

\* _validate_case_input: the name of the exception it raises, or "none"
required_fields == <<"maxim", "scene", "agent", "action">>

validate_case_input(case) ==
    IF \E i \in 1..Len(required_fields) : required_fields[i] \notin DOMAIN case
        THEN "ValueError"
    ELSE IF ~isinstance_dict(case["scene"]) THEN "ValueError"
    ELSE IF ~isinstance_dict(case["agent"]) THEN "ValueError"
    ELSE IF ~isinstance_dict(case["action"]) THEN "ValueError"
    ELSE "none"

\* _test_universalizability(maxim, scene)
test_universalizability_needs_duty(maxim, scene) ==
    LET maxim_lower == lower(maxim)
        is_problematic == any_keyword_in(maxim_lower, non_universalizable_keywords)
        noumenal_duties == dict_get(scene, "noumenal_duties", <<>>)
    IN  IF is_problematic /\ noumenal_duties # <<>>
        THEN [verdict |-> "FAILURE", rationale |-> "universalizability_duty"]
        ELSE [verdict |-> "PASS", rationale |-> "universalizability_pass"]

test_universalizability(maxim, scene) ==
    LET maxim_lower == lower(maxim)
        is_problematic == any_keyword_in(maxim_lower, non_universalizable_keywords)
        noumenal_duties == dict_get(scene, "noumenal_duties", <<>>)
    IN  IF is_problematic
        THEN IF noumenal_duties # <<>> /\ Len(noumenal_duties) > 0
             THEN [verdict |-> "FAILURE", rationale |-> "universalizability_duty"]
             ELSE [verdict |-> "FAILURE", rationale |-> "universalizability_conditional"]
        ELSE [verdict |-> "PASS", rationale |-> "universalizability_pass"]

test_humanity_formula_needs_development(agent, action) ==
    LET action_lower == lower(dict_get(action, "description", <<>>))
    IN  IF /\ any_keyword_in(action_lower, dignity_violation_keywords)
           /\ any_keyword_in(action_lower, development_keywords)
        THEN [verdict |-> "VIOLATION", rationale |-> "humanity_development"]
        ELSE [verdict |-> "PASS", rationale |-> "humanity_pass"]

\* _test_humanity_formula(agent, action)
test_humanity_formula(agent, action) ==
    LET action_description == dict_get(action, "description", <<>>)
        action_lower == lower(action_description)
        has_denial == any_keyword_in(action_lower, dignity_violation_keywords)
        affects_development == any_keyword_in(action_lower, development_keywords)
    IN  IF has_denial /\ affects_development
        THEN [verdict |-> "VIOLATION", rationale |-> "humanity_development"]
        ELSE IF has_denial
        THEN [verdict |-> "VIOLATION", rationale |-> "humanity_instrumental"]
        ELSE [verdict |-> "PASS", rationale |-> "humanity_pass"]

\* _test_autonomy(action, scene)
test_autonomy(action, scene) ==
    LET phenomenal_constraints == dict_get(scene, "phenomenal_constraints", <<>>)
        noumenal_duties == dict_get(scene, "noumenal_duties", <<>>)
        phenomenal_lower == lower(phenomenal_constraints)
        has_external_pressure == any_keyword_in(phenomenal_lower, pressure_keywords)
        has_duty_consideration == noumenal_duties # <<>> /\ str_len(noumenal_duties) > 10
    IN  IF has_external_pressure /\ has_duty_consideration
        THEN [verdict |-> "VIOLATION", rationale |-> "autonomy_pressure_over_duty"]
        ELSE IF has_external_pressure
        THEN [verdict |-> "VIOLATION", rationale |-> "autonomy_pressure"]
        ELSE [verdict |-> "PASS", rationale |-> "autonomy_pass"]

\* scene_context = f"{phenomenal} {noumenal}".lower()
scene_context_of(scene) ==
    lower(dict_get(scene, "phenomenal_constraints", <<>>) \o <<SP>>
          \o dict_get(scene, "noumenal_duties", <<>>))

\* mutant: AND where the code has OR
test_procedural_justice_and(scene, agent) ==
    IF any_keyword_in(scene_context_of(scene), violation_keywords)
       /\ ~any_keyword_in(scene_context_of(scene), justice_keywords)
    THEN [verdict |-> "FAILURE", rationale |-> "procedural_failure"]
    ELSE [verdict |-> "PASS", rationale |-> "procedural_pass"]

\* mutant: a neutral default, failing only on a violation keyword
test_procedural_justice_neutral(scene, agent) ==
    IF any_keyword_in(scene_context_of(scene), violation_keywords)
    THEN [verdict |-> "FAILURE", rationale |-> "procedural_failure"]
    ELSE [verdict |-> "PASS", rationale |-> "procedural_pass"]

\* _test_procedural_justice(scene, agent)
test_procedural_justice(scene, agent) ==
    LET scene_context == scene_context_of(scene)
        has_violations == any_keyword_in(scene_context, violation_keywords)
        has_justice_indicators == any_keyword_in(scene_context, justice_keywords)
    IN  IF has_violations \/ ~has_justice_indicators
        THEN [verdict |-> "FAILURE", rationale |-> "procedural_failure"]
        ELSE [verdict |-> "PASS", rationale |-> "procedural_pass"]

\* the violations list of _generate_summary
summary_violations(universalizability, humanity, autonomy, procedural_justice) ==
    (IF universalizability.verdict = "FAILURE" THEN <<"Categorical Imperative">> ELSE <<>>)
    \o (IF humanity.verdict = "VIOLATION" THEN <<"Humanity Formula">> ELSE <<>>)
    \o (IF autonomy.verdict = "VIOLATION" THEN <<"Autonomy Principle">> ELSE <<>>)
    \o (IF procedural_justice.verdict = "FAILURE" THEN <<"Procedural Justice">> ELSE <<>>)

\* mutant: the significant-problems template starts at three violations
generate_summary_from_three(universalizability, humanity, autonomy, procedural_justice) ==
    LET violations == summary_violations(universalizability, humanity, autonomy,
                                         procedural_justice)
    IN  IF Len(violations) = 4
        THEN [template |-> "systematic_failure", violations |-> violations]
        ELSE IF Len(violations) >= 3
        THEN [template |-> "significant_problems", violations |-> violations]
        ELSE IF Len(violations) = 1
        THEN [template |-> "single_violation", violations |-> violations]
        ELSE [template |-> "satisfies_all", violations |-> <<>>]

\* _generate_summary: the template chosen and the names interpolated into it
generate_summary(universalizability, humanity, autonomy, procedural_justice) ==
    LET violations == summary_violations(universalizability, humanity, autonomy,
                                         procedural_justice)
    IN  IF Len(violations) = 4
        THEN [template |-> "systematic_failure", violations |-> violations]
        ELSE IF Len(violations) >= 2
        THEN [template |-> "significant_problems", violations |-> violations]
        ELSE IF Len(violations) = 1
        THEN [template |-> "single_violation", violations |-> violations]
        ELSE [template |-> "satisfies_all", violations |-> <<>>]

\* EthicalAnalysisReport(...): the model built from the keyword arguments;
\* analysis_timestamp is not passed and takes its default, the clock's value
\* at construction, workflow_id its default None
EthicalAnalysisReport_stamped_summary(fields, now) ==
    [summary |-> [fields.summary EXCEPT !.template = <<@, now>>],
     analysis_timestamp |-> now, workflow_id |-> "None"] @@ fields

EthicalAnalysisReport(fields, now) ==
    fields @@ [analysis_timestamp |-> now, workflow_id |-> "None"]

\* analyze(case_builder_input), called when the clock reads now: the report
\* returned or the exception raised
analyze(case, now) ==
    \* the start-of-analysis log line reads case.get("agent", {}).get("role")
    IF "agent" \in DOMAIN case /\ ~isinstance_dict(case["agent"])
    THEN [status |-> "raised", error |-> "AttributeError"]
    ELSE IF validate_case_input(case) # "none"
    THEN [status |-> "raised", error |-> validate_case_input(case)]
    ELSE
        LET maxim == case["maxim"]
            scene == case["scene"].val
            agent == case["agent"].val
            action == case["action"].val
            universalizability_result == test_universalizability(maxim, scene)
            humanity_result == test_humanity_formula(agent, action)
            autonomy_result == test_autonomy(action, scene)
            procedural_justice_result == test_procedural_justice(scene, agent)
        IN  EthicalAnalysisReport(
            [status |-> "returned",
             universalizability_test |-> universalizability_result,
             humanity_formula_test |-> humanity_result,
             autonomy_test |-> autonomy_result,
             procedural_justice_test |-> procedural_justice_result,
             summary |-> generate_summary(universalizability_result, humanity_result,
                                          autonomy_result, procedural_justice_result),
             case_builder_input |-> case], now)

(***************************************************************************)
(* ViolationToModuleMapper and KantianToKOERSAdapter                       *)
(* (adapters/kantian_to_koers.py).  A report is a dict; the value of a     *)
(* test key is a dict (with or without a "verdict") or something else      *)
(* (null).                                                                 *)
(***************************************************************************)
test_fields == <<"universalizability_test", "humanity_formula_test",
                 "autonomy_test", "procedural_justice_test">>

test_to_violation_reversed == <<
    <<"procedural_justice_test", "Procedural Justice Failure">>,
    <<"autonomy_test",           "Autonomy Violation">>,
    <<"humanity_formula_test",   "Humanity Formula Violation">>,
    <<"universalizability_test", "Universalizability Failure">> >>

test_to_violation == <<
    <<"universalizability_test", "Universalizability Failure">>,
    <<"humanity_formula_test",   "Humanity Formula Violation">>,
    <<"autonomy_test",           "Autonomy Violation">>,
    <<"procedural_justice_test", "Procedural Justice Failure">> >>

VIOLATION_MODULE_MAP ==
    ("Universalizability Failure" :> "categorical_imperative")
    @@ ("Humanity Formula Violation" :> "dignity_instrumentalization")
    @@ ("Autonomy Violation" :> "autonomy_agency")
    @@ ("Procedural Justice Failure" :> "procedural_justice")

\* str.upper() on a verdict
upper(v) ==
    CASE v = "failure"   -> "FAILURE"
      [] v = "violation" -> "VIOLATION"
      [] v = "pass"      -> "PASS"
      [] OTHER           -> v

in_list(x, list) == \E i \in 1..Len(list) : list[i] = x

\* mutant: only FAILURE verdicts select a module
map_violations_entry_failure_only(ethical_report, i, modules) ==
    LET test_name == test_to_violation[i][1]
        module == VIOLATION_MODULE_MAP[test_to_violation[i][2]]
    IN  IF test_name \notin DOMAIN ethical_report THEN modules
        ELSE IF upper(dict_get(ethical_report[test_name].val, "verdict", "")) = "FAILURE"
                /\ ~in_list(module, modules)
             THEN Append(modules, module)
             ELSE modules

\* one iteration of the loop of map_violations over test_to_violation[i]
map_violations_entry(ethical_report, i, modules) ==
    LET test_name == test_to_violation[i][1]
        violation_name == test_to_violation[i][2]
    IN  IF test_name \notin DOMAIN ethical_report THEN modules
        ELSE LET verdict == upper(dict_get(ethical_report[test_name].val, "verdict", ""))
                 module == VIOLATION_MODULE_MAP[violation_name]
             IN  IF verdict \in {"FAILURE", "VIOLATION"} /\ ~in_list(module, modules)
                 THEN Append(modules, module)
                 ELSE modules

RECURSIVE map_violations_loop(_, _, _)
map_violations_loop(ethical_report, i, modules) ==
    IF i > Len(test_to_violation) THEN modules
    ELSE map_violations_loop(ethical_report, i + 1,
                             map_violations_entry(ethical_report, i, modules))

\* test_result.get(...) on a value that is no dict raises AttributeError
map_violations_raises(ethical_report) ==
    \E i \in 1..Len(test_to_violation) :
        /\ test_to_violation[i][1] \in DOMAIN ethical_report
        /\ ~isinstance_dict(ethical_report[test_to_violation[i][1]])

\* mutant: "core" is added after the violations instead of first
map_violations_core_last(ethical_report) ==
    IF map_violations_raises(ethical_report)
    THEN [raised |-> TRUE, error |-> "AttributeError"]
    ELSE [raised |-> FALSE,
          modules |-> Append(map_violations_loop(ethical_report, 1, <<>>), "core")]

\* ViolationToModuleMapper.map_violations
map_violations(ethical_report) ==
    IF map_violations_raises(ethical_report)
    THEN [raised |-> TRUE, error |-> "AttributeError"]
    ELSE [raised |-> FALSE,
          modules |-> map_violations_loop(ethical_report, 1, <<"core">>)]

\* mutant: the report is not checked for test results
adapter_validate_always(ethical_report) == TRUE

\* KantianToKOERSAdapter.validate: TRUE, or FALSE for the ValueError it raises
adapter_validate(ethical_report) ==
    \E i \in 1..Len(test_fields) : test_fields[i] \in DOMAIN ethical_report

(***************************************************************************)
(* Survey deployers.                                                       *)
(***************************************************************************)
CoreItems == 7
ModuleItems == 5

\* mutant: every module, "core" included, adds five items to the seven
stub_item_count_flat(modules) == CoreItems + ModuleItems * Len(modules)

RECURSIVE stub_item_count(_)
stub_item_count(modules) ==
    IF modules = <<>> THEN CoreItems
    ELSE (IF Head(modules) # "core" THEN ModuleItems ELSE 0)
         + stub_item_count(Tail(modules))

non_core(modules) == SelectSeq(modules, LAMBDA m : m # "core")
module_set(modules) == {modules[i] : i \in 1..Len(modules)}

\* carevoice_stub.deploy_survey
stub_deploy_survey(modules) ==
    LET module_hash == module_set(modules)
        url_suffix == IF non_core(modules) # <<>> THEN Head(non_core(modules)) ELSE "core"
    IN  [raised |-> FALSE,
         report |-> [survey_id |-> <<"mock_tf", module_hash>>,
                     survey_url |-> <<"https://typeform.com/to/", "MOCK", url_suffix,
                                      module_hash>>,
                     item_count |-> stub_item_count(modules),
                     module_list |-> modules,
                     validation_status |-> "passed"]]

\* typeform_live._generate_fields_for_modules: one entry per question
RECURSIVE module_fields(_)
module_fields(modules) ==
    IF modules = <<>> THEN <<>>
    ELSE (IF Head(modules) = "core" THEN <<>>
          ELSE [idx \in 1..ModuleItems |-> <<Head(modules), idx>>])
         \o module_fields(Tail(modules))

generate_fields_for_modules(modules) ==
    (IF in_list("core", modules) THEN [idx \in 1..CoreItems |-> <<"core", idx>>] ELSE <<>>)
    \o module_fields(modules)

\* what the Typeform API can do with POST /forms
HttpOutcomes == {"timeout", "connect_error", "status_401", "status_500",
                 "created_without_id", "created"}

\* mutant: a response that is not 200/201 is not checked
live_deploy_survey_unchecked_status(modules, api_token, http) ==
    IF api_token = "" THEN [raised |-> TRUE, error |-> "ValueError"]
    ELSE IF http \in {"timeout", "connect_error"}
    THEN [raised |-> TRUE, error |-> "HTTPError"]
    ELSE IF http = "created_without_id"
    THEN [raised |-> TRUE, error |-> "RuntimeError"]
    ELSE [raised |-> FALSE,
          report |-> [survey_id |-> <<"form_id">>,
                      survey_url |-> <<"https://typeform.com/to/", "form_id">>,
                      item_count |-> Len(generate_fields_for_modules(modules)),
                      module_list |-> modules,
                      validation_status |-> "passed"]]

\* typeform_live.deploy_survey
live_deploy_survey(modules, api_token, http) ==
    IF api_token = "" THEN [raised |-> TRUE, error |-> "ValueError"]
    ELSE LET fields == generate_fields_for_modules(modules)
             item_count == Len(fields)
         IN  IF http \in {"timeout", "connect_error"}
             THEN [raised |-> TRUE, error |-> "HTTPError"]
             ELSE IF http \in {"status_401", "status_500"}
             THEN [raised |-> TRUE, error |-> "RuntimeError"]
             ELSE IF http = "created_without_id"
             THEN [raised |-> TRUE, error |-> "RuntimeError"]
             ELSE [raised |-> FALSE,
                   report |-> [survey_id |-> <<"form_id">>,
                               survey_url |-> <<"https://typeform.com/to/", "form_id">>,
                               item_count |-> item_count,
                               module_list |-> modules,
                               validation_status |-> "passed"]]

\* the choices of the external library: the item count and module list it reports
CareVoicePicks == [items : {"counted", "short"}, list : {"as_given", "without_core"}]

carevoice_deploy_survey(modules, pick) ==
    [raised |-> FALSE,
     report |-> [survey_id |-> <<"cv_id">>,
                 survey_url |-> <<"https://typeform.com/to/", "cv_id">>,
                 item_count |-> IF pick.items = "counted"
                                THEN stub_item_count(modules) ELSE ModuleItems,
                 module_list |-> IF pick.list = "as_given"
                                 THEN modules ELSE non_core(modules),
                 validation_status |-> "passed"]]

\* the deploy_survey the adapter module imported (kantian_to_koers.py:21-37)
deploy_survey(deployer, modules, api_token, env) ==
    CASE deployer = "live"      -> live_deploy_survey(modules, api_token, env.http)
      [] deployer = "carevoice" -> carevoice_deploy_survey(modules, env.pick)
      [] OTHER                  -> stub_deploy_survey(modules)

\* KantianToKOERSAdapter.transform: the deployment report or the exception,
\* and the module lists deploy_survey was called with on the way
adapter_transform(ethical_report, deployer, api_token, env) ==
    IF ~adapter_validate(ethical_report)
    THEN [raised |-> TRUE, error |-> "ValueError", deploy_calls |-> <<>>]
    ELSE LET mapped == map_violations(ethical_report)
         IN  IF mapped.raised
             THEN [raised |-> TRUE, error |-> mapped.error, deploy_calls |-> <<>>]
             ELSE LET d == deploy_survey(deployer, mapped.modules, api_token, env)
                  IN  IF d.raised
                      THEN [raised |-> TRUE, error |-> d.error,
                            deploy_calls |-> <<mapped.modules>>]
                      ELSE [raised |-> FALSE, report |-> d.report,
                            deploy_calls |-> <<mapped.modules>>]

(***************************************************************************)
(* POST /generate-koers-survey (api/deploy.py).                            *)
(***************************************************************************)
generate_koers_survey(request, deployer, api_token, env) ==
    LET t == adapter_transform(request.source_data, deployer, api_token, env)
    IN  IF ~t.raised
        THEN [response |-> [status_code |-> 200,
                            workflow_id |-> request.workflow_id,
                            transformed_data |-> t.report,
                            schema_version |-> "DeploymentReport_v1",
                            pydantic_ai_used |-> FALSE],
              deploy_calls |-> t.deploy_calls]
        ELSE IF t.error = "ValueError"
        THEN [response |-> [status_code |-> 422, error |-> "TRANSFORMATION_FAILED"],
              deploy_calls |-> t.deploy_calls]
        ELSE [response |-> [status_code |-> 500, error |-> "INTERNAL_SERVER_ERROR"],
              deploy_calls |-> t.deploy_calls]

(***************************************************************************)
(* ComplaintToKantianAdapter (adapters/complaint_to_kantian.py) and        *)
(* POST /escalate-to-ethics (api/escalate.py).                             *)
(***************************************************************************)
\* ComplaintToKantianAdapter.validate: "none" or the exception it raises
complaint_validate(complaint) ==
    IF \E field \in {"narrative", "maxim_extraction"} :
            field \notin DOMAIN complaint \/ complaint[field] = <<>>
    THEN "ValueError"
    ELSE IF "pentadic_context" \notin DOMAIN complaint
            \/ DOMAIN complaint["pentadic_context"] = {}
    THEN "ValueError"
    ELSE IF "scene" \notin DOMAIN complaint["pentadic_context"]
            \/ "agent" \notin DOMAIN complaint["pentadic_context"]
    THEN "ValueError"
    ELSE "none"

\* ComplaintToKantianAdapter.transform on a complaint that passed validate
complaint_transform(complaint) ==
    LET pentadic_context == complaint["pentadic_context"]
        scene == pentadic_context["scene"]
        agent == pentadic_context["agent"]
        rhetorical_context == dict_get(complaint, "rhetorical_context", <<>>)
    IN  ("action" :> Dict(("description" :> complaint["narrative"])
                          @@ ("moral_worth" :> <<"PENDING">>)))
        @@ ("scene" :> Dict(("phenomenal_constraints" :> dict_get(scene, "phenomenal", <<>>))
                            @@ ("noumenal_duties" :> dict_get(scene, "noumenal", <<>>))))
        @@ ("agent" :> Dict(("role" :> dict_get(agent, "role", <<"Employee">>))
                            @@ ("categorical_status" :> <<"PENDING">>)))
        @@ ("maxim" :> complaint["maxim_extraction"])
        @@ ("employee_experience" :> dict_get(rhetorical_context, "experience", <<>>))

\* mutant: the autonomy test is left unset
report_dict_without_autonomy(report) ==
    ("universalizability_test" :> Dict(report.universalizability_test))
    @@ ("humanity_formula_test" :> Dict(report.humanity_formula_test))
    @@ ("autonomy_test" :> NonDict)
    @@ ("procedural_justice_test" :> Dict(report.procedural_justice_test))
    @@ ("summary" :> report.summary)
    @@ ("case_builder_input" :> report.case_builder_input)
    @@ ("analysis_timestamp" :> report.analysis_timestamp)
    @@ ("workflow_id" :> report.workflow_id)

\* EthicalAnalysisReport.dict()
report_dict(report) ==
    ("universalizability_test" :> Dict(report.universalizability_test))
    @@ ("humanity_formula_test" :> Dict(report.humanity_formula_test))
    @@ ("autonomy_test" :> Dict(report.autonomy_test))
    @@ ("procedural_justice_test" :> Dict(report.procedural_justice_test))
    @@ ("summary" :> report.summary)
    @@ ("case_builder_input" :> report.case_builder_input)
    @@ ("analysis_timestamp" :> report.analysis_timestamp)
    @@ ("workflow_id" :> report.workflow_id)

\* the endpoint: the response to a TransformationRequest received at now
escalate_to_ethics(request, now) ==
    IF complaint_validate(request.source_data) # "none"
    THEN [status_code |-> 422, error |-> "TRANSFORMATION_FAILED"]
    ELSE LET ethical_analysis == analyze(complaint_transform(request.source_data), now)
         IN  IF ethical_analysis.status = "returned"
             THEN [status_code |-> 200,
                   workflow_id |-> request.workflow_id,
                   transformed_data |-> report_dict(ethical_analysis),
                   schema_version |-> "EthicalAnalysisReport_v1",
                   pydantic_ai_used |-> FALSE]
             ELSE IF ethical_analysis.error = "ValueError"
             THEN [status_code |-> 422, error |-> "TRANSFORMATION_FAILED"]
             ELSE [status_code |-> 500, error |-> "INTERNAL_SERVER_ERROR"]

(***************************************************************************)
(* The ChatOps agent: message validation (chatops-agent/src/validation.py).*)
(* A JSON value of the payload is a string (a text) or null.               *)
(***************************************************************************)
PIPE == "|"
JsonStr(text) == [kind |-> "str", val |-> text]
JsonNull == [kind |-> "null"]

MAX_NARRATIVE_LENGTH == 2000
MAX_MAXIM_LENGTH == 500

\* str.strip(): leading and trailing whitespace removed
RECURSIVE lstrip(_)
lstrip(text) ==
    IF text # <<>> /\ Head(text) = SP THEN lstrip(Tail(text)) ELSE text

RECURSIVE rstrip(_)
rstrip(text) ==
    IF text # <<>> /\ text[Len(text)] = SP
    THEN rstrip(SubSeq(text, 1, Len(text) - 1)) ELSE text

strip(text) == rstrip(lstrip(text))

\* mutant: the message is split at its last delimiter
split_at_last(message) ==
    LET i == CHOOSE i \in 1..Len(message) :
                /\ message[i] = PIPE
                /\ \A j \in (i + 1)..Len(message) : message[j] # PIPE
    IN  <<SubSeq(message, 1, i - 1), SubSeq(message, i + 1, Len(message))>>

\* message.split("|", 1) of a message that contains the delimiter
split_once(message) ==
    LET i == CHOOSE i \in 1..Len(message) :
                /\ message[i] = PIPE
                /\ \A j \in 1..(i - 1) : message[j] # PIPE
    IN  <<SubSeq(message, 1, i - 1), SubSeq(message, i + 1, Len(message))>>

\* mutant: every message passes the delimiter check
validate_delimiter_always(message) == TRUE

\* validate_delimiter: is_valid
validate_delimiter(message) == \E i \in 1..Len(message) : message[i] = PIPE

\* validate_non_empty: is_valid (defined by the module, called by nothing)
validate_non_empty(value) == ~(value = <<>> \/ str_len(strip(value)) = 0)

\* validate_length: is_valid
\* mutant: a value of exactly max_length is refused
validate_length_below(value, max_length) == ~(str_len(value) >= max_length)

validate_length(value, max_length) == ~(str_len(value) > max_length)

\* mutant: a message without delimiter is taken as a narrative without maxim
validate_message_format_lenient(message) ==
    IF ~validate_delimiter(message)
    THEN [is_valid |-> TRUE, narrative |-> strip(message), maxim |-> <<>>]
    ELSE [is_valid |-> TRUE, narrative |-> strip(split_once(message)[1]),
          maxim |-> strip(split_once(message)[2])]

\* validate_message_format: (is_valid, error_message, parsed_components)
validate_message_format(message) ==
    IF ~validate_delimiter(message)
    THEN [is_valid |-> FALSE, error |-> "missing_delimiter"]
    ELSE LET narrative == strip(split_once(message)[1])
             maxim == strip(split_once(message)[2])
         IN  IF ~validate_length(narrative, MAX_NARRATIVE_LENGTH)
             THEN [is_valid |-> FALSE, error |-> "narrative_too_long"]
             ELSE IF ~validate_length(maxim, MAX_MAXIM_LENGTH)
             THEN [is_valid |-> FALSE, error |-> "maxim_too_long"]
             ELSE [is_valid |-> TRUE, narrative |-> narrative, maxim |-> maxim]

\* validate_webhook_payload: is_valid, for a payload whose body, when
\* present, is a string
validate_webhook_payload(payload) ==
    IF "body" \notin DOMAIN payload THEN FALSE
    ELSE payload["body"].val # <<>>

\* validate_workflow_id: is_valid
validate_workflow_id(workflow_id) == workflow_id # ""

(***************************************************************************)
(* The ChatOps agent: UnionActionClient (union_action_client_http.py), the *)
(* error tracker (diagnostics.py) and the responses (error_responses.py).  *)
(***************************************************************************)
\* UnionActionClient._create_mock_complaint_document
create_mock_complaint_document(narrative, maxim, now) ==
    [narrative |-> narrative,
     pentadic_context |->
        [scene |-> [phenomenal |-> <<"Healthcare", SP, "workplace", SP, "constraint", "s">>,
                    noumenal |-> <<"Professional", SP, "duty", SP, "to", SP,
                                   "patient", SP, "care">>],
         agent |-> [role |-> <<"Healthcare", SP, "staff">>],
         agency |-> <<"Professional", SP, "duties">>,
         purpose |-> <<"Patient", SP, "care">>],
     maxim_extraction |-> maxim,
     rhetorical_context |-> [experience |-> <<"Employee", SP, "experience">>],
     complaint_id |-> <<"whatsapp_", now>>,
     timestamp |-> now,
     source |-> "whatsapp_chatops"]

\* what the network does with one POST of the client
NetOutcomes == {"delivered", "timeout", "connect_error"}

\* the request payload of UnionActionClient.escalate_to_ethics
escalate_request(workflow_id, narrative, maxim, now) ==
    [workflow_id |-> workflow_id,
     source_data |-> create_mock_complaint_document(narrative, maxim, now),
     schema_version |-> "NHSComplaintDocument_v1"]

\* mutant: only the four test results of the report are sent on
generate_request_tests_only(workflow_id, ethical_report) ==
    [workflow_id |-> workflow_id,
     source_data |-> [k \in {"universalizability_test", "humanity_formula_test",
                              "autonomy_test", "procedural_justice_test"}
                        |-> ethical_report[k]],
     schema_version |-> "EthicalAnalysisReport_v1"]

\* mutant: the second step is called without the sender
generate_request_anonymous(workflow_id, ethical_report) ==
    [workflow_id |-> "unknown_user",
     source_data |-> ethical_report,
     schema_version |-> "EthicalAnalysisReport_v1"]

\* the request payload of UnionActionClient.generate_koers_survey
generate_request(workflow_id, ethical_report) ==
    [workflow_id |-> workflow_id,
     source_data |-> ethical_report,
     schema_version |-> "EthicalAnalysisReport_v1"]

\* what a client method makes of the outcome of its POST: the
\* transformed_data it returns or the exception it raises
client_result(net, response) ==
    IF net # "delivered" THEN [raised |-> TRUE, error |-> "HTTPError"]
    ELSE IF response.status_code # 200
    THEN [raised |-> TRUE, error |-> "HTTPStatusError"]
    ELSE IF "transformed_data" \notin DOMAIN response
    THEN [raised |-> TRUE, error |-> "ValueError"]
    ELSE [raised |-> FALSE, result |-> response.transformed_data]

\* ErrorTracker.__init__ and ErrorTracker.track_error (the counters)
NoErrors == [validation |-> 0, parsing |-> 0, integration |-> 0, unknown |-> 0]

track_error(errors, error_category) ==
    IF error_category \in DOMAIN errors
    THEN [errors EXCEPT ![error_category] = @ + 1]
    ELSE [errors EXCEPT !["unknown"] = @ + 1]

\* categorize_error of an exception that is none of the agent's own classes
categorize_error(exc) == "unknown"

\* build_error_response and its wrappers, build_success_response
build_validation_error_response ==
    [status_code |-> 400, status |-> "error", error_code |-> "VALIDATION_ERROR"]
build_parse_error_response ==
    [status_code |-> 400, status |-> "error", error_code |-> "PARSE_ERROR"]
build_server_error_response ==
    [status_code |-> 500, status |-> "error", error_code |-> "INTERNAL_ERROR"]
build_success_response(workflow_result) ==
    [status_code |-> 200, status |-> "received", workflow_result |-> workflow_result]

\* an exception that leaves handle_webhook: tracked as "unknown" by the
\* handler's outer except, then categorized and tracked again by the
\* global exception handler, which answers 500
unhandled(errors, exc) ==
    [errors |-> track_error(track_error(errors, "unknown"), categorize_error(exc)),
     response |-> build_server_error_response]

\* an exception of a client call: tracked as "integration" and re-raised
orchestration_failed(errors, exc) ==
    unhandled(track_error(errors, "integration"), exc)

(***************************************************************************)
(* Inputs.                                                                 *)
(***************************************************************************)
Verdicts == {"FAILURE", "VIOLATION", "PASS", "failure"}

\* the value of a test key: null, a dict without verdict, a dict with one
TestValues == {NonDict, Dict(<<>>)} \cup {Dict("verdict" :> v) : v \in Verdicts}

Reports ==
    {opt_entry("universalizability_test", u) @@ opt_entry("humanity_formula_test", h)
     @@ opt_entry("autonomy_test", a) @@ opt_entry("procedural_justice_test", p)
     @@ opt_entry("summary", s) :
        u \in Optional(TestValues), h \in Optional(TestValues),
        a \in Optional(TestValues), p \in Optional(TestValues),
        s \in Optional({NonDict})}

WorkflowIds == {"wf_abc123"}

\* the order in which the keys of a report were inserted into the dict: the
\* analyzer's order or its reverse
ReportKeys == <<"universalizability_test", "humanity_formula_test", "autonomy_test",
                "procedural_justice_test", "summary">>
Reverse(seq) == [i \in 1..Len(seq) |-> seq[Len(seq) + 1 - i]]
KeyOrders(report) ==
    LET present == SelectSeq(ReportKeys, LAMBDA k : k \in DOMAIN report)
    IN  {present, Reverse(present)}
Deployers == {"stub", "live", "carevoice"}
NoEnv == [http |-> "created", pick |-> [items |-> "counted", list |-> "as_given"]]

\* analyzer inputs: the structural family (keys present or not, dicts or not)
MaximSamples == { <<"Fair">>, <<"Training", SP, "Can", SP, "be", SP, "denied">> }
DescriptionSamples == { <<"fair">>, <<"denied">>, <<"Denied", SP, "training">> }
PhenomenalSamples == { <<>>, <<"Cost">>, <<"consistent">> }
NoumenalSamples == { <<>>, <<"fair">>, <<"fair", SP, "training", SP, "appeal">> }

SceneDicts(P, N) ==
    {opt_entry("phenomenal_constraints", p) @@ opt_entry("noumenal_duties", n) :
        p \in Optional(P), n \in Optional(N)}
ActionDicts(D) == {opt_entry("description", d) : d \in Optional(D)}
AgentDicts == {<<>>, "role" :> "Employee"}

CaseInputs(M, S, G, A) ==
    {opt_entry("maxim", m) @@ opt_entry("scene", s) @@ opt_entry("agent", g)
     @@ opt_entry("action", a) :
        m \in M, s \in S, g \in G, a \in A}

StructuralInputs ==
    CaseInputs(Optional(MaximSamples),
               Optional({NonDict} \cup {Dict(d) : d \in SceneDicts(PhenomenalSamples,
                                                                  NoumenalSamples)}),
               Optional({NonDict} \cup {Dict(d) : d \in AgentDicts}),
               Optional({NonDict} \cup {Dict(d) : d \in ActionDicts(DescriptionSamples)}))

\* the scene family: well-formed inputs whose two scene texts range over all
\* short texts of fragments of the procedural keywords
SceneAlphabet == {"no", SP, "Appeal", "in", "consistent"}
SceneTexts == TextsUpTo(SceneAlphabet, MaxSceneLen)

SceneInputs ==
    CaseInputs({Present(<<"Fair">>)},
               {Present(Dict(d)) : d \in SceneDicts(SceneTexts, SceneTexts)},
               {Present(Dict("role" :> "Employee"))},
               {Present(Dict("description" :> <<"fair">>))})

\* the maxim family: well-formed inputs whose maxim ranges over all short
\* texts of fragments of the conditional-language markers, with the stated
\* duties absent, empty or given
MaximAlphabet == {"Can", SP, "be", "may", "Optional"}
MaximTexts == TextsUpTo(MaximAlphabet, MaxMaximLen)

MaximInputs ==
    CaseInputs({Present(m) : m \in MaximTexts},
               {Present(Dict(d)) : d \in SceneDicts({<<>>}, {<<>>, <<"fair">>})},
               {Present(Dict("role" :> "Employee"))},
               {Present(Dict("description" :> <<"fair">>))})

\* the description family: well-formed inputs whose action description
\* ranges over all short texts of denial and development keywords
DescriptionAlphabet == {"Denied", SP, "training", "Refused", "fair"}
DescriptionTexts == TextsUpTo(DescriptionAlphabet, MaxDescriptionLen)

DescriptionInputs ==
    CaseInputs({Present(<<"Fair">>)},
               {Present(Dict(<<>>))},
               {Present(Dict("role" :> "Employee"))},
               {Present(Dict("description" :> d)) : d \in DescriptionTexts})

\* webhook payloads: the body absent, null or a short text of words, spaces
\* and delimiters; the sender absent, empty or a phone number
BodyAlphabet == {"denied", "optional", SP, PIPE}
BodyTexts == TextsUpTo(BodyAlphabet, MaxBodyLen)
\* parts of a message at and around the two length limits
LongParts ==
    {<<"s">>} \cup
    {<<x>> \o tail \o pad :
        x \in {"x*499", "x*1999"},
        tail \in {<<>>, <<"s">>, <<"s", "s">>},
        pad \in {<<>>, <<SP>>}}
LongBodies == {n \o <<PIPE>> \o m : n \in LongParts, m \in LongParts}
Payloads ==
    {opt_entry("body", b) @@ opt_entry("from", f) :
        b \in Optional({JsonNull} \cup {JsonStr(t) : t \in BodyTexts \cup LongBodies}),
        f \in Optional({"", "447700900123"})}

AnalysisInputs == StructuralInputs \cup SceneInputs \cup MaximInputs \cup DescriptionInputs

(***************************************************************************)
(* The analyzer applied to an input.                                       *)
(***************************************************************************)
NotAnalyzed == [status |-> "none"]
KoersOff == [pc |-> "off"]
WebhookOff == [pc |-> "off"]
HealthOff == [pc |-> "off"]
TrackerOff == [pc |-> "off"]
EnjinOff == [pc |-> "off"]
ChatopsOff == [pc |-> "off"]
AuxOff ==
    /\ health = HealthOff
    /\ tracker = TrackerOff
    /\ enjin = EnjinOff
    /\ chatops = ChatopsOff
CoreOff ==
    /\ case_input = <<>>
    /\ analysis = NotAnalyzed
    /\ earlier = NotAnalyzed
    /\ utcnow = 0
    /\ koers = KoersOff
    /\ webhook = WebhookOff

InitAnalyze ==
    /\ case_input \in AnalysisInputs
    /\ analysis = NotAnalyzed
    /\ earlier = NotAnalyzed
    /\ utcnow = 0
    /\ koers = KoersOff
    /\ webhook = WebhookOff
    /\ AuxOff

\* analyze is called on the input, for the first or for the second time
Analyze ==
    /\ earlier = NotAnalyzed
    /\ koers = KoersOff
    /\ analysis' = analyze(case_input, utcnow)
    /\ earlier' = analysis
    /\ UNCHANGED <<case_input, utcnow, koers, webhook, aux_vars>>

\* time passes
ClockTick ==
    /\ koers = KoersOff
    /\ utcnow < MaxClock
    /\ utcnow' = utcnow + 1
    /\ UNCHANGED <<case_input, analysis, earlier, koers, webhook, aux_vars>>

NextAnalyze ==
    \/ Analyze
    \/ ClockTick

SpecAnalyze == InitAnalyze /\ [][NextAnalyze]_vars

(***************************************************************************)
(* The /generate-koers-survey service.                                     *)
(***************************************************************************)
Init ==
    /\ case_input = <<>>
    /\ analysis = NotAnalyzed
    /\ earlier = NotAnalyzed
    /\ utcnow = 0
    /\ webhook = WebhookOff
    /\ AuxOff
    /\ koers \in {[pc |-> "idle", deployer |-> d,
                   typeform_api_token |-> IF d = "live" THEN "tfp_token" ELSE "",
                   request |-> Absent, response |-> Absent, deploy_calls |-> <<>>,
                   env |-> NoEnv] :
                    d \in Deployers}

PostGenerateKoersSurvey ==
    /\ koers.pc = "idle"
    /\ \E w \in WorkflowIds, r \in Reports : \E order \in KeyOrders(r) :
        koers' = [koers EXCEPT !.pc = "received",
                               !.request = Present([workflow_id |-> w, source_data |-> r,
                                                    source_keys |-> order])]
    /\ UNCHANGED <<analyzer_vars, webhook, aux_vars>>

Respond(env) ==
    LET out == generate_koers_survey(koers.request.val, koers.deployer,
                                     koers.typeform_api_token, env)
    IN  koers' = [koers EXCEPT !.pc = "responded",
                               !.response = Present(out.response),
                               !.deploy_calls = out.deploy_calls,
                               !.env = env]

GenerateKoersSurveyStub ==
    /\ koers.pc = "received"
    /\ koers.deployer = "stub"
    /\ Respond(NoEnv)
    /\ UNCHANGED <<analyzer_vars, webhook, aux_vars>>

GenerateKoersSurveyLive ==
    /\ koers.pc = "received"
    /\ koers.deployer = "live"
    /\ \E http \in HttpOutcomes : Respond([NoEnv EXCEPT !.http = http])
    /\ UNCHANGED <<analyzer_vars, webhook, aux_vars>>

GenerateKoersSurveyCareVoice ==
    /\ koers.pc = "received"
    /\ koers.deployer = "carevoice"
    /\ \E pick \in CareVoicePicks : Respond([NoEnv EXCEPT !.pick = pick])
    /\ UNCHANGED <<analyzer_vars, webhook, aux_vars>>

CloseKoers ==
    /\ koers.pc = "responded"
    /\ koers' = [koers EXCEPT !.pc = "idle", !.request = Absent,
                              !.response = Absent, !.deploy_calls = <<>>,
                              !.env = NoEnv]
    /\ UNCHANGED <<analyzer_vars, webhook, aux_vars>>

Next ==
    \/ PostGenerateKoersSurvey
    \/ GenerateKoersSurveyStub
    \/ GenerateKoersSurveyLive
    \/ GenerateKoersSurveyCareVoice
    \/ CloseKoers

Spec == Init /\ [][Next]_vars

(***************************************************************************)
(* The ChatOps agent's /webhook handler (chatops-agent/src/main.py) with   *)
(* the Union Action service behind it.                                     *)
(***************************************************************************)
\* handle_webhook up to its first client call: the response it returns, or
\* the components it goes on with
webhook_parse_refusing_after_errors(data, errors) ==
    IF errors # NoErrors
    THEN [go_on |-> FALSE, errors |-> track_error(errors, "unknown"),
          response |-> build_server_error_response]
    ELSE IF "body" \notin DOMAIN data \/ data["body"].kind # "str"
            \/ ~validate_message_format(data["body"].val).is_valid
    THEN [go_on |-> FALSE, errors |-> track_error(errors, "validation"),
          response |-> build_validation_error_response]
    ELSE [go_on |-> TRUE, errors |-> errors,
          workflow_id |-> dict_get(data, "from", "unknown_user"),
          narrative |-> validate_message_format(data["body"].val).narrative,
          maxim |-> validate_message_format(data["body"].val).maxim]

webhook_parse(data, errors) ==
    IF "body" \in DOMAIN data /\ data["body"].kind # "str"
    THEN \* len(data.get("body", "")) raises TypeError
         [go_on |-> FALSE] @@ unhandled(errors, "TypeError")
    ELSE IF ~validate_webhook_payload(data)
    THEN [go_on |-> FALSE, errors |-> track_error(errors, "validation"),
          response |-> build_validation_error_response]
    ELSE LET message == data["body"].val
             format == validate_message_format(message)
             workflow_id == dict_get(data, "from", "unknown_user")
         IN  IF ~format.is_valid
             THEN [go_on |-> FALSE, errors |-> track_error(errors, "parsing"),
                   response |-> build_parse_error_response]
             ELSE IF ~validate_workflow_id(workflow_id)
             THEN [go_on |-> FALSE, errors |-> track_error(errors, "validation"),
                   response |-> build_validation_error_response]
             ELSE [go_on |-> TRUE, errors |-> errors, workflow_id |-> workflow_id,
                   narrative |-> format.narrative, maxim |-> format.maxim]

NoRequest ==
    [payload |-> Absent, workflow_id |-> "", calls |-> <<>>, served |-> <<>>,
     deploy_calls |-> <<>>, returns |-> <<>>, response |-> Absent]

InitWebhook ==
    /\ case_input = <<>>
    /\ analysis = NotAnalyzed
    /\ earlier = NotAnalyzed
    /\ utcnow = 0
    /\ koers = KoersOff
    /\ AuxOff
    /\ webhook \in {[pc |-> "idle", deployer |-> d,
                     typeform_api_token |-> IF d = "live" THEN "tfp_token" ELSE "",
                     errors |-> NoErrors, handled |-> 0, request |-> NoRequest] :
                      d \in Deployers}

\* a POST /webhook arrives and is handled up to the response or the first
\* call of the Union Action service
PostWebhook ==
    /\ webhook.pc = "idle"
    /\ webhook.handled < MaxRequests
    /\ \E data \in Payloads :
        LET parsed == webhook_parse(data, webhook.errors)
        IN  webhook' =
              IF ~parsed.go_on
              THEN [webhook EXCEPT !.pc = "responded", !.errors = parsed.errors,
                                   !.request = [NoRequest EXCEPT
                                        !.payload = Present(data),
                                        !.response = Present(parsed.response)]]
              ELSE [webhook EXCEPT !.pc = "escalating",
                                   !.request = [NoRequest EXCEPT
                                        !.payload = Present(data),
                                        !.workflow_id = parsed.workflow_id,
                                        !.calls = <<[endpoint |-> "/escalate-to-ethics",
                                                     request |-> escalate_request(
                                                        parsed.workflow_id,
                                                        parsed.narrative,
                                                        parsed.maxim, utcnow)]>>]]
    /\ UNCHANGED <<analyzer_vars, koers, aux_vars>>

\* the call of /escalate-to-ethics ends: on success the handler calls
\* /generate-koers-survey with the report, on failure it answers 500
\* the responses of the service that reached the client, in order
delivered(served, net, response) ==
    IF net = "delivered" THEN Append(served, response) ELSE served

fail_request(exc, net, response, deploy_calls) ==
    LET failed == orchestration_failed(webhook.errors, exc)
    IN  [webhook EXCEPT !.pc = "responded", !.errors = failed.errors,
                        !.request.deploy_calls = deploy_calls,
                        !.request.served = delivered(@, net, response),
                        !.request.returns = Append(@, [raised |-> TRUE, error |-> exc]),
                        !.request.response = Present(failed.response)]

EscalateReturns ==
    /\ webhook.pc = "escalating"
    /\ \E net \in NetOutcomes :
        LET sent == webhook.request.calls[1].request
            response == escalate_to_ethics(sent, utcnow)
            step == client_result(net, response)
        IN  webhook' =
              IF step.raised THEN fail_request(step.error, net, response, <<>>)
              ELSE [webhook EXCEPT
                        !.pc = "generating",
                        !.request.served = delivered(@, net, response),
                        !.request.returns = Append(@, step),
                        !.request.calls = Append(@,
                            [endpoint |-> "/generate-koers-survey",
                             request |-> generate_request(webhook.request.workflow_id,
                                                          step.result)])]
    /\ UNCHANGED <<analyzer_vars, koers, aux_vars>>

\* what the deployer the service imported can meet when it is called
DeployerEnvs(deployer) ==
    CASE deployer = "live"      -> {[NoEnv EXCEPT !.http = http] : http \in HttpOutcomes}
      [] deployer = "carevoice" -> {[NoEnv EXCEPT !.pick = pick] : pick \in CareVoicePicks}
      [] OTHER                  -> {NoEnv}

\* the call of /generate-koers-survey ends: the handler answers 200 with the
\* combined result, or 500
GenerateReturns ==
    /\ webhook.pc = "generating"
    /\ \E net \in NetOutcomes, env \in DeployerEnvs(webhook.deployer) :
        LET sent == webhook.request.calls[2].request
            served == generate_koers_survey(sent, webhook.deployer,
                                            webhook.typeform_api_token, env)
            step == client_result(net, served.response)
        IN  webhook' =
              IF step.raised THEN fail_request(step.error, net, served.response,
                                              IF net = "delivered" THEN served.deploy_calls ELSE <<>>)
              ELSE LET ethical_report == webhook.request.returns[1].result
                       deployment_report == step.result
                       result == [status |-> "success",
                                  ethical_analysis |-> ethical_report,
                                  deployment_report |-> deployment_report,
                                  survey_url |-> deployment_report.survey_url,
                                  module_list |-> deployment_report.module_list]
                   IN  [webhook EXCEPT
                            !.pc = "responded",
                            !.request.served = delivered(@, net, served.response),
                            !.request.deploy_calls = served.deploy_calls,
                            !.request.returns = Append(@, step),
                            !.request.response = Present(build_success_response(result))]
    /\ UNCHANGED <<analyzer_vars, koers, aux_vars>>

\* the response is sent: nothing of the request stays but the tracked errors
CloseWebhook ==
    /\ webhook.pc = "responded"
    /\ webhook' = [webhook EXCEPT !.pc = "idle", !.handled = @ + 1,
                                  !.request = NoRequest]
    /\ UNCHANGED <<analyzer_vars, koers, aux_vars>>

NextWebhook ==
    \/ PostWebhook
    \/ EscalateReturns
    \/ GenerateReturns
    \/ CloseWebhook

SpecWebhook == InitWebhook /\ [][NextWebhook]_vars

(***************************************************************************)
(* HealthCheckCache (chatops-agent/src/health_checks.py).  A cache maps    *)
(* the keys it holds to the pair of a value and the time.time() of its     *)
(* set.                                                                    *)
(***************************************************************************)
None == "None"
ttl_seconds == 10
EmptyCache == <<>>

\* HealthCheckCache.set
cache_set(cache, key, value, now) ==
    [k \in DOMAIN cache \cup {key} |->
        IF k = key THEN [value |-> value, timestamp |-> now] ELSE cache[k]]

\* mutant: an entry is still good when exactly ttl_seconds have elapsed
cache_get_closed(cache, key, now) ==
    IF key \notin DOMAIN cache THEN [hit |-> FALSE, value |-> None, cache |-> cache]
    ELSE IF now - cache[key].timestamp <= ttl_seconds
    THEN [hit |-> TRUE, value |-> cache[key].value, cache |-> cache]
    ELSE [hit |-> FALSE, value |-> None, cache |-> [k \in DOMAIN cache \ {key} |-> cache[k]]]

\* HealthCheckCache.get: the value returned (hit: it is a cached value, not
\* the None of a miss) and the cache it leaves
cache_get(cache, key, now) ==
    IF key \notin DOMAIN cache THEN [hit |-> FALSE, value |-> None, cache |-> cache]
    ELSE IF now - cache[key].timestamp < ttl_seconds
    THEN [hit |-> TRUE, value |-> cache[key].value, cache |-> cache]
    ELSE [hit |-> FALSE, value |-> None, cache |-> [k \in DOMAIN cache \ {key} |-> cache[k]]]

\* HealthCheckCache.clear
cache_clear(cache) == EmptyCache

(***************************************************************************)
(* A HealthCheckCache in use: set, get and clear at times that pass.       *)
(* last_set remembers, for the properties, the latest set of every key     *)
(* since the cache was made or cleared.                                    *)
(***************************************************************************)
CacheKeys == {"check1", "check2"}
CacheValues == {"ok", "error"}
Elapses == {1, MaxElapse}

InitCache ==
    /\ CoreOff
    /\ tracker = TrackerOff
    /\ enjin = EnjinOff
    /\ chatops = ChatopsOff
    /\ health = [pc |-> "cache", now |-> 0, cache |-> EmptyCache,
                 last_op |-> "init", got |-> [key |-> None, value |-> None],
                 last_set |-> EmptyCache]

CacheSet ==
    /\ health.pc = "cache"
    /\ \E key \in CacheKeys, value \in CacheValues :
        health' = [health EXCEPT
                        !.cache = cache_set(@, key, value, health.now),
                        !.last_set = cache_set(@, key, value, health.now),
                        !.last_op = "set"]
    /\ UNCHANGED <<core_vars, tracker, enjin, chatops>>

CacheGet ==
    /\ health.pc = "cache"
    /\ \E key \in CacheKeys :
        LET r == cache_get(health.cache, key, health.now)
        IN  health' = [health EXCEPT !.cache = r.cache,
                                     !.got = [key |-> key, value |-> r.value],
                                     !.last_op = "get"]
    /\ UNCHANGED <<core_vars, tracker, enjin, chatops>>

CacheClear ==
    /\ health.pc = "cache"
    /\ health' = [health EXCEPT !.cache = cache_clear(@), !.last_set = EmptyCache,
                                !.last_op = "clear"]
    /\ UNCHANGED <<core_vars, tracker, enjin, chatops>>

\* time passes
CacheTick ==
    /\ health.pc = "cache"
    /\ \E d \in Elapses :
        /\ health.now + d <= MaxCacheClock
        /\ health' = [health EXCEPT !.now = @ + d, !.last_op = "tick"]
    /\ UNCHANGED <<core_vars, tracker, enjin, chatops>>

NextCache ==
    \/ CacheSet
    \/ CacheGet
    \/ CacheClear
    \/ CacheTick

SpecCache == InitCache /\ [][NextCache]_vars


(***************************************************************************)
(* ErrorTracker with its list of recent errors (diagnostics.py).  An entry *)
(* of the list is the category as given and the datetime.now() of the      *)
(* call.                                                                   *)
(***************************************************************************)
max_recent_errors == 100

\* ErrorTracker.__init__
NewErrorTracker == [errors |-> NoErrors, recent_errors |-> <<>>]

\* the last n items of a list: list[-n:] for n > 0
last_items(list, n) ==
    IF Len(list) <= n THEN list ELSE SubSeq(list, Len(list) - n + 1, Len(list))

\* mutant: the list is cut to its first max_recent_errors entries
tracker_track_error_keeping_oldest(t, error_category, now) ==
    LET error_entry == [category |-> error_category, timestamp |-> now]
        appended == Append(t.recent_errors, error_entry)
    IN  [errors |-> track_error(t.errors, error_category),
         recent_errors |-> IF Len(appended) > max_recent_errors
                           THEN SubSeq(appended, 1, max_recent_errors)
                           ELSE appended]

\* ErrorTracker.track_error: counters and list
tracker_track_error(t, error_category, now) ==
    LET error_entry == [category |-> error_category, timestamp |-> now]
        appended == Append(t.recent_errors, error_entry)
    IN  [errors |-> track_error(t.errors, error_category),
         recent_errors |-> IF Len(appended) > max_recent_errors
                           THEN last_items(appended, max_recent_errors)
                           ELSE appended]

\* sum(self.errors.values())
total_errors(t) ==
    t.errors.validation + t.errors.parsing + t.errors.integration + t.errors.unknown

\* track_error called again and again, the first call at now and each
\* further call elapse later, until the tracker has counted total errors
RECURSIVE track_errors_up_to(_, _, _, _, _)
track_errors_up_to(t, error_category, now, elapse, total) ==
    IF total_errors(t) >= total THEN t
    ELSE track_errors_up_to(tracker_track_error(t, error_category, now),
                            error_category, now + elapse, elapse, total)

\* track_error called n times in a row
track_errors(t, error_category, now, elapse, n) ==
    track_errors_up_to(t, error_category, now, elapse, total_errors(t) + n)

\* ErrorTracker.reset
tracker_reset(t) == NewErrorTracker

\* ErrorTracker.get_recent_errors(limit) for limit > 0
get_recent_errors(t, limit) == last_items(t.recent_errors, limit)

(***************************************************************************)
(* GET /health (chatops-agent/src/main.py, health_checks.py).              *)
(***************************************************************************)
\* what check_memory_usage can return as status
MemoryStatuses == {"ok", "warning", "error"}

\* what check_union_action_api can return as status: the status of the
\* Union Action service's /health answer (api/health.py), "timeout" or
\* "error"
UnionActionStatuses == {"healthy", "timeout", "error"}

\* mutant: every error of the list counts, however old
check_recent_errors_any_age(t, now, time_window_seconds) ==
    Len(get_recent_errors(t, 1000))

\* check_recent_errors: its "count"
check_recent_errors(t, now, time_window_seconds) ==
    LET recent_errors == get_recent_errors(t, 1000)
        cutoff_time == now - time_window_seconds
    IN  Cardinality({i \in 1..Len(recent_errors) :
                        recent_errors[i].timestamp > cutoff_time})

\* statuses.count(status)
status_count(checks, status) ==
    Cardinality({i \in 1..Len(checks) : checks[i].status = status})

aggregate_health_status(checks) ==
    LET error_count == status_count(checks, "error")
        timeout_count == status_count(checks, "timeout")
        total_checks == Len(checks)
    IN  IF total_checks = 0 THEN "unknown"
        ELSE IF error_count = 0 /\ timeout_count = 0 THEN "ok"
        ELSE IF error_count = total_checks THEN "down"
        ELSE "degraded"

\* health_check past the cache: the response built from the checks
health_response(memory_check, union_action_check, t, now) ==
    LET recent_errors == check_recent_errors(t, now, 300)
        checks_list == <<memory_check, union_action_check>>
        aggregated == aggregate_health_status(checks_list)
        overall_status == IF recent_errors > 10 THEN "degraded" ELSE aggregated
    IN  [status |-> overall_status,
         dependencies |-> [union_action_api |-> union_action_check,
                           memory |-> memory_check],
         error_metrics |-> [total_errors |-> total_errors(t),
                            recent_errors_last_5min |-> recent_errors]]

(***************************************************************************)
(* The agent answering /health while errors are tracked and time passes.   *)
(***************************************************************************)
\* the instants at which something happens
HealthInstants == {0, 9, 10, 299, 300}
\* failed requests arrive in runs of this many tracked errors
ErrorRuns == {MaxErrorRun - 1, MaxErrorRun}

InitHealth ==
    /\ CoreOff
    /\ enjin = EnjinOff
    /\ chatops = ChatopsOff
    /\ tracker = NewErrorTracker
    /\ health = [pc |-> "health", now |-> 0, cache |-> EmptyCache,
                 last_op |-> "init", answer |-> [from_cache |-> FALSE, response |-> None]]

\* GET /health: the cached response if there is a fresh one, else the
\* checks are run and their response is cached
HealthCheck ==
    /\ health.pc = "health"
    /\ \E memory_status \in MemoryStatuses, union_status \in UnionActionStatuses :
        LET cached_result == cache_get(health.cache, "health_check", health.now)
            response == health_response([status |-> memory_status],
                                        [status |-> union_status],
                                        tracker, health.now)
        IN  health' =
              IF cached_result.hit
              THEN [health EXCEPT !.cache = cached_result.cache,
                                  !.last_op = "health_check",
                                  !.answer = [from_cache |-> TRUE,
                                              response |-> cached_result.value]]
              ELSE [health EXCEPT !.cache = cache_set(cached_result.cache, "health_check",
                                                      response, health.now),
                                  !.last_op = "health_check",
                                  !.answer = [from_cache |-> FALSE, response |-> response]]
    /\ UNCHANGED <<core_vars, tracker, enjin, chatops>>

\* requests fail and their errors are tracked
TrackErrors ==
    /\ health.pc = "health"
    /\ \E n \in ErrorRuns, error_category \in {"validation", "integration"} :
        /\ Len(tracker.recent_errors) + n <= MaxTracked
        /\ tracker' = track_errors(tracker, error_category, health.now, 0, n)
    /\ health' = [health EXCEPT !.last_op = "track_error"]
    /\ UNCHANGED <<core_vars, enjin, chatops>>

\* time passes
HealthTick ==
    /\ health.pc = "health"
    /\ \E t \in HealthInstants :
        /\ t > health.now
        /\ health' = [health EXCEPT !.now = t, !.last_op = "tick"]
    /\ UNCHANGED <<core_vars, tracker, enjin, chatops>>

NextHealth ==
    \/ HealthCheck
    \/ TrackErrors
    \/ HealthTick

SpecHealth == InitHealth /\ [][NextHealth]_vars


(***************************************************************************)
(* An ErrorTracker in use: runs of track_error calls and resets.  tracked  *)
(* remembers, for the properties, every call since the last reset; the     *)
(* clock moves by one with every call.                                     *)
(***************************************************************************)
TrackerRuns == {1, MaxTrackerRun}
\* categories given to track_error: two the tracker knows and one it does not
TrackedCategories == {"validation", "integration", "timeout"}

\* the entries n calls starting at now append
call_entries(error_category, now, n) ==
    [i \in 1..n |-> [category |-> error_category, timestamp |-> now + i - 1]]

InitTracker ==
    /\ CoreOff
    /\ health = HealthOff
    /\ enjin = EnjinOff
    /\ chatops = ChatopsOff
    /\ tracker = [errors |-> NewErrorTracker.errors,
                  recent_errors |-> NewErrorTracker.recent_errors,
                  now |-> 0, tracked |-> <<>>, runs |-> 0, resets |-> 0]

TrackError ==
    /\ tracker.runs < MaxRuns
    /\ \E n \in TrackerRuns, error_category \in TrackedCategories :
        LET t == track_errors([errors |-> tracker.errors,
                               recent_errors |-> tracker.recent_errors],
                              error_category, tracker.now, 1, n)
        IN  tracker' = [tracker EXCEPT
                            !.errors = t.errors,
                            !.recent_errors = t.recent_errors,
                            !.now = @ + n,
                            !.tracked = @ \o call_entries(error_category, tracker.now, n),
                            !.runs = @ + 1]
    /\ UNCHANGED <<core_vars, health, enjin, chatops>>

Reset ==
    /\ tracker.resets < MaxResets
    /\ LET t == tracker_reset([errors |-> tracker.errors,
                               recent_errors |-> tracker.recent_errors])
       IN  tracker' = [tracker EXCEPT !.errors = t.errors,
                                      !.recent_errors = t.recent_errors,
                                      !.tracked = <<>>,
                                      !.resets = @ + 1]
    /\ UNCHANGED <<core_vars, health, enjin, chatops>>

NextTracker ==
    \/ TrackError
    \/ Reset

SpecTracker == InitTracker /\ [][NextTracker]_vars


(***************************************************************************)
(* EnjinPlatformClient._execute_with_retry (services/enjin_client.py).     *)
(* Of _check_rate_limit only the requests it records are kept; its sleeps  *)
(* end by themselves.                                                      *)
(***************************************************************************)
\* what self.client.execute_async can do: return the result of the query,
\* raise a TransportError (one of its subclasses) or raise something else
TransportErrors == {"TransportServerError", "TransportQueryError"}
OtherErrors == {"TimeoutError", "GraphQLError"}
ExecuteOutcomes == {"result"} \cup TransportErrors \cup OtherErrors

\* PLATFORM_RETRY_ATTEMPTS and PLATFORM_RETRY_DELAY as the environment gives
\* them (the delay in tenths of a second)
RetryAttempts == 0..MaxRetryAttempts
RetryDelays == {5, 10, 20}

RECURSIVE pow2(_)
pow2(n) == IF n = 0 THEN 1 ELSE 2 * pow2(n - 1)

InitRetry ==
    /\ CoreOff
    /\ health = HealthOff
    /\ tracker = TrackerOff
    /\ chatops = ChatopsOff
    /\ enjin \in {[pc |-> "loop", retry_attempts |-> a, retry_delay |-> d,
                   attempt |-> 0, requests |-> 0, executed |-> <<>>, slept |-> <<>>,
                   outcome |-> None] :
                    a \in RetryAttempts, d \in RetryDelays}

\* one pass of the for loop up to its return, raise or sleep; past the last
\* value of range(retry_attempts) the function ends without a return
\* statement
Attempt ==
    /\ enjin.pc = "loop"
    /\ IF ~(enjin.attempt < enjin.retry_attempts)
       THEN enjin' = [enjin EXCEPT !.pc = "returned", !.outcome = None]
       ELSE \E done \in ExecuteOutcomes :
              LET tried == [enjin EXCEPT !.requests = @ + 1,
                                         !.executed = Append(@, done)]
              IN  enjin' =
                    IF done = "result"
                    THEN [tried EXCEPT !.pc = "returned", !.outcome = "result"]
                    ELSE IF done \in TransportErrors
                    THEN IF enjin.attempt < enjin.retry_attempts - 1
                         THEN [tried EXCEPT
                                  !.pc = "sleeping",
                                  !.slept = Append(@, enjin.retry_delay
                                                       * pow2(enjin.attempt))]
                         ELSE [tried EXCEPT !.pc = "raised", !.outcome = done]
                    ELSE [tried EXCEPT !.pc = "raised", !.outcome = done]
    /\ UNCHANGED <<core_vars, health, tracker, chatops>>

\* asyncio.sleep returns and the loop goes on with the next attempt
Wake ==
    /\ enjin.pc = "sleeping"
    /\ enjin' = [enjin EXCEPT !.pc = "loop", !.attempt = @ + 1]
    /\ UNCHANGED <<core_vars, health, tracker, chatops>>

NextRetry ==
    \/ Attempt
    \/ Wake

SpecRetry == InitRetry /\ [][NextRetry]_vars


(***************************************************************************)
(* ChatopsAgent (union-action/chatops-agent/main.py) run by main().        *)
(* start() begins with logger.info(..., version=__version__); the module   *)
(* neither defines nor imports __version__, so that statement raises       *)
(* NameError and nothing after it in start() is ever executed.             *)
(***************************************************************************)
\* Config() as the environment sets it
Configs ==
    [poll_interval : {1, 5}, error_retry_interval : {1, 10}, request_timeout : {5, 30}]

\* main() has built the Config and the ChatopsAgent
InitChatops ==
    /\ CoreOff
    /\ health = HealthOff
    /\ tracker = TrackerOff
    /\ enjin = EnjinOff
    /\ chatops \in {[pc |-> "constructed", config |-> c, running |-> FALSE,
                     stop_calls |-> 0, outcome |-> None] : c \in Configs}

\* await agent.start(): its first statement raises NameError, before
\* self.running = True and outside the try block
Start ==
    /\ chatops.pc = "constructed"
    /\ chatops' = [chatops EXCEPT !.pc = "start_ended", !.outcome = "NameError"]
    /\ UNCHANGED <<core_vars, health, tracker, enjin>>

\* await agent.stop() by another task
Stop ==
    /\ chatops.pc \in {"constructed", "start_ended"}
    /\ chatops.stop_calls < MaxStops
    /\ chatops' = [chatops EXCEPT !.running = FALSE, !.stop_calls = @ + 1]
    /\ UNCHANGED <<core_vars, health, tracker, enjin>>

\* main() catches the exception of start() and calls sys.exit(1)
MainExits ==
    /\ chatops.pc = "start_ended"
    /\ chatops.outcome # "returned"
    /\ chatops' = [chatops EXCEPT !.pc = "exited"]
    /\ UNCHANGED <<core_vars, health, tracker, enjin>>

NextChatops ==
    \/ Start
    \/ Stop
    \/ MainExits

SpecChatops == InitChatops /\ [][NextChatops]_vars


(***************************************************************************)
(* Properties.                                                             *)
(***************************************************************************)
Responded == koers.pc = "responded"
SourceData == koers.request.val.source_data
Response == koers.response.val
Selected == Len(koers.deploy_calls) = 1
Selection == koers.deploy_calls[1]

CategoryModule ==
    ("universalizability_test" :> "categorical_imperative")
    @@ ("humanity_formula_test" :> "dignity_instrumentalization")
    @@ ("autonomy_test" :> "autonomy_agency")
    @@ ("procedural_justice_test" :> "procedural_justice")
Categories == DOMAIN CategoryModule

\* a category is present in the report with outcome FAILURE or VIOLATION
\* (in any letter case, as the report model accepts it)
FailedOrViolated(report, k) ==
    /\ k \in DOMAIN report
    /\ report[k] \in {Dict("verdict" :> v) :
                        v \in {"FAILURE", "VIOLATION", "failure", "violation"}}

HasRecognizedKey(report) == Categories \cap DOMAIN report # {}

\* C1: whenever the module selector returns a list for a report, each non-core
\* module is in that list if and only if its category is present in the report
\* with outcome FAILURE or VIOLATION.
C1_ModuleIffViolation ==
    (Responded /\ Selected) =>
        \A k \in Categories :
            in_list(CategoryModule[k], Selection) <=> FailedOrViolated(SourceData, k)

\* a selection with a module for a violated category next to a category that
\* passed and one that is absent
C1_Witness ==
    /\ Responded /\ Selected
    /\ Selection = <<"core", "dignity_instrumentalization">>
    /\ "universalizability_test" \in DOMAIN SourceData
    /\ "autonomy_test" \notin DOMAIN SourceData

\* C2: the list the module selector returns always has "core" as its first
\* element.
C2_CoreFirst ==
    (Responded /\ Selected) => (Len(Selection) >= 1 /\ Selection[1] = "core")

C2_Witness ==
    /\ Responded /\ Selected
    /\ Len(Selection) = 5
    /\ Selection[1] = "core"

C4_ReturnedReportValid ==
    (Responded /\ Response.status_code = 200) =>
        /\ in_list("core", Response.transformed_data.module_list)
        /\ Response.transformed_data.item_count >= 7

\* C8: a report with none of the four recognized test-result keys is refused
\* with 422 and no survey deployment is attempted for it.
C8_NoCategoryRefused ==
    (Responded /\ ~HasRecognizedKey(SourceData)) =>
        /\ Response.status_code = 422
        /\ koers.deploy_calls = <<>>

\* a refused report that is not empty: it holds only an unrecognized key
C8_Witness ==
    /\ Responded
    /\ DOMAIN SourceData = {"summary"}
    /\ Response.status_code = 422
    /\ koers.deploy_calls = <<>>

\* C9: module selection never fails on a report with at least one of the four
\* recognized category keys: it completes and the deployer is called.
C9_SelectionNeverFails ==
    (Responded /\ HasRecognizedKey(SourceData)) => Selected

Analyzed == analysis.status # "none"
Raised == analysis.status = "raised"
Returned == analysis.status = "returned"

IsDictAt(k) == k \in DOMAIN case_input /\ case_input[k].kind = "dict"
MaximAbsent == "maxim" \notin DOMAIN case_input
DescriptionAbsent ==
    ~IsDictAt("action") \/ "description" \notin DOMAIN case_input["action"].val
WellFormed ==
    ~MaximAbsent /\ IsDictAt("scene") /\ IsDictAt("agent") /\ IsDictAt("action")

SceneText(k) ==
    IF IsDictAt("scene") /\ k \in DOMAIN case_input["scene"].val
    THEN case_input["scene"].val[k] ELSE <<>>
DescriptionText ==
    IF DescriptionAbsent THEN <<>> ELSE case_input["action"].val["description"]

\* the input with every optional text written out, absent ones as ""
WithDefaults ==
    ("maxim" :> case_input["maxim"])
    @@ ("agent" :> case_input["agent"])
    @@ ("scene" :> Dict(("phenomenal_constraints" :> SceneText("phenomenal_constraints"))
                        @@ ("noumenal_duties" :> SceneText("noumenal_duties"))))
    @@ ("action" :> Dict("description" :> DescriptionText))

EmptyOptionalFields ==
    /\ WellFormed
    /\ SceneText("phenomenal_constraints") = <<>>
    /\ SceneText("noumenal_duties") = <<>>

\* C6 as stated: with contextual_pressures and stated_duties both empty,
\* analyze raises no error and the autonomy test and the procedural-fairness
\* test both have outcome PASS.
C6_EmptyFieldsAllPass ==
    (Analyzed /\ EmptyOptionalFields) =>
        /\ Returned
        /\ analysis.autonomy_test.verdict = "PASS"
        /\ analysis.procedural_justice_test.verdict = "PASS"

\* C6 as amended: with both fields empty analyze raises no error and the
\* autonomy test has outcome PASS, while the procedural-fairness test has
\* outcome FAILURE (an empty context holds no justice keyword).
C6_EmptyFieldsAutonomyPass ==
    (Analyzed /\ EmptyOptionalFields) =>
        /\ Returned
        /\ analysis.autonomy_test.verdict = "PASS"
        /\ analysis.procedural_justice_test.verdict = "FAILURE"

\* both fields empty, one as "" and one absent, and the analysis returned
C6_Witness ==
    /\ Returned
    /\ DOMAIN case_input["scene"].val = {"phenomenal_constraints"}
    /\ case_input["scene"].val["phenomenal_constraints"] = <<>>
    /\ analysis.procedural_justice_test.verdict = "FAILURE"

\* a keyword occurs in a text
Occurs(keyword, text) ==
    \E i \in 0..Len(text) : \E j \in i..Len(text) : SubSeq(text, i + 1, j) = keyword
OccursAny(keywords, text) == \E k \in DOMAIN keywords : Occurs(keywords[k], text)

\* the two scene texts joined (by one space, as the code joins them), lower-cased
JoinedContext ==
    lower(SceneText("phenomenal_constraints") \o <<SP>> \o SceneText("noumenal_duties"))

\* C7: the procedural-fairness outcome is FAILURE if and only if the
\* lower-cased concatenation of contextual_pressures and stated_duties
\* contains a violation keyword or contains no justice keyword; otherwise it
\* is PASS.
C7_ProceduralFailureIff ==
    Returned =>
        /\ analysis.procedural_justice_test.verdict \in {"FAILURE", "PASS"}
        /\ analysis.procedural_justice_test.verdict = "FAILURE"
            <=> (OccursAny(violation_keywords, JoinedContext)
                 \/ ~OccursAny(justice_keywords, JoinedContext))

\* FAILURE on a context that holds a justice keyword ("appeal") inside a
\* violation keyword ("no appeal")
C7_Witness ==
    /\ Returned
    /\ JoinedContext = <<"no", SP, "appeal">>
    /\ analysis.procedural_justice_test.verdict = "FAILURE"

\* the number of the four tests whose outcome is FAILURE or VIOLATION
ViolationCount ==
    Cardinality({t \in Categories : analysis[t].verdict \in {"FAILURE", "VIOLATION"}})

TemplateFor(n) ==
    CASE n = 4        -> "systematic_failure"
      [] n \in {2, 3} -> "significant_problems"
      [] n = 1        -> "single_violation"
      [] n = 0        -> "satisfies_all"

\* C10: the summary template is decided by the number n of tests whose outcome
\* is FAILURE or VIOLATION alone: systematic failure for 4, significant
\* problems for 2 and 3, single violation for 1, satisfies all for 0.
C10_TemplateByCount ==
    Returned =>
        /\ analysis.summary.template = TemplateFor(ViolationCount)
        /\ Len(analysis.summary.violations) = ViolationCount

\* two violations, neither of them the procedural one
C10_Witness ==
    /\ Returned
    /\ ViolationCount = 2
    /\ analysis.procedural_justice_test.verdict = "PASS"
    /\ analysis.summary.template = "significant_problems"

(***************************************************************************)
(* Two calls of analyze on one input (SpecAnalyze).                        *)
(***************************************************************************)
AnalyzedTwice == earlier.status # "none"
ReportFields == {"universalizability_test", "humanity_formula_test", "autonomy_test",
                 "procedural_justice_test", "summary", "case_builder_input"}

\* C11 as stated: two calls of analyze on one input return byte-identical
\* reports: no field of the report depends on time or on the earlier call.
C11_ByteIdentical ==
    AnalyzedTwice => analysis = earlier

\* C11 as amended: two calls of analyze on one input raise the same error or
\* return reports with the same four test results, summary and echoed
\* input; the reports' analysis_timestamp is the clock's value at each call,
\* so the second report's is the later or equal one and may differ.
C11_IdenticalButTimestamp ==
    AnalyzedTwice =>
        /\ analysis.status = earlier.status
        /\ Raised => analysis = earlier
        /\ Returned =>
            /\ DOMAIN analysis = DOMAIN earlier
            /\ \A f \in ReportFields \cup {"workflow_id"} : analysis[f] = earlier[f]
            /\ earlier.analysis_timestamp <= analysis.analysis_timestamp
            /\ analysis.analysis_timestamp <= utcnow

\* two reports of one input, with a failed test, taken at different instants
C11_Witness ==
    /\ AnalyzedTwice
    /\ Returned
    /\ analysis.universalizability_test.verdict = "FAILURE"
    /\ earlier.analysis_timestamp < analysis.analysis_timestamp

(***************************************************************************)
(* The universalizability and the humanity-formula tests (SpecAnalyze).    *)
(***************************************************************************)
MaximText == lower(case_input["maxim"])

\* C12: the universalizability outcome is FAILURE if and only if the maxim
\* contains, case-insensitively, at least one conditional-language marker,
\* whether or not the stated duties are empty; otherwise it is PASS.
C12_UniversalizabilityFailureIff ==
    Returned =>
        /\ analysis.universalizability_test.verdict \in {"FAILURE", "PASS"}
        /\ analysis.universalizability_test.verdict = "FAILURE"
            <=> OccursAny(non_universalizable_keywords, MaximText)

\* FAILURE on a maxim with a capitalised marker although no duty is stated
C12_Witness ==
    /\ Returned
    /\ case_input["maxim"] = <<"Can", SP, "be">>
    /\ SceneText("noumenal_duties") = <<>>
    /\ analysis.universalizability_test.verdict = "FAILURE"

\* C13: the humanity-formula outcome is VIOLATION if and only if the action
\* description contains, case-insensitively, at least one denial keyword,
\* whether or not a development keyword is present too; otherwise it is PASS.
C13_DignityViolationIff ==
    Returned =>
        /\ analysis.humanity_formula_test.verdict \in {"VIOLATION", "PASS"}
        /\ analysis.humanity_formula_test.verdict = "VIOLATION"
            <=> OccursAny(dignity_violation_keywords, lower(DescriptionText))

\* VIOLATION on a description with a capitalised denial keyword and no
\* development keyword
C13_Witness ==
    /\ Returned
    /\ DescriptionText = <<"Refused", SP, "fair">>
    /\ ~OccursAny(development_keywords, lower(DescriptionText))
    /\ analysis.humanity_formula_test.verdict = "VIOLATION"

(***************************************************************************)
(* Order of the selected modules (Spec).                                   *)
(***************************************************************************)
ModuleOrder == <<"categorical_imperative", "dignity_instrumentalization",
                 "autonomy_agency", "procedural_justice">>
Rank(module) == CHOOSE i \in 1..Len(ModuleOrder) : ModuleOrder[i] = module

\* C14: the non-core modules of a selection appear in the fixed order
\* categorical_imperative, dignity_instrumentalization, autonomy_agency,
\* procedural_justice, whatever the order of the categories in the report.
C14_FixedModuleOrder ==
    (Responded /\ Selected) =>
        \A i \in 2..Len(Selection) : \A j \in (i + 1)..Len(Selection) :
            /\ in_list(Selection[i], ModuleOrder)
            /\ in_list(Selection[j], ModuleOrder)
            /\ Rank(Selection[i]) < Rank(Selection[j])

\* all four modules selected from a report whose keys came in reverse order
C14_Witness ==
    /\ Responded
    /\ Selected
    /\ koers.request.val.source_keys = Reverse(test_fields)
    /\ Selection = <<"core">> \o ModuleOrder

(***************************************************************************)
(* Failures of the survey deployer (Spec).                                 *)
(***************************************************************************)
DeployerCalled == Len(koers.deploy_calls) = 1
DeploymentFailed == koers.deployer = "live" /\ koers.env.http # "created"

\* C18: a failure of the survey deployer (timeout, transport error, a
\* response other than 200/201, a response without form id) is answered by
\* /generate-koers-survey with an error response; no success carrying a
\* survey URL is returned for a deployment that failed.
C18_DeployerFailureSurfaced ==
    (Responded /\ DeployerCalled /\ DeploymentFailed) =>
        /\ Response.status_code \in {422, 500}
        /\ "transformed_data" \notin DOMAIN Response

\* the form service answered 201 without a form id and the caller got a 500
C18_Witness ==
    /\ Responded
    /\ DeployerCalled
    /\ koers.deployer = "live"
    /\ koers.env.http = "created_without_id"
    /\ Response.status_code = 500

(***************************************************************************)
(* The webhook handler (SpecWebhook).                                      *)
(***************************************************************************)
Calls == webhook.request.calls
Returns == webhook.request.returns
WebhookResponded == webhook.pc = "responded"
WebhookResponse == webhook.request.response.val
Payload == webhook.request.payload.val
HasTextBody == "body" \in DOMAIN Payload /\ Payload["body"].kind = "str"
Body == Payload["body"].val
Forwarded == Len(Calls) >= 1
Complaint == Calls[1].request.source_data

Spaces(n) == [i \in 1..n |-> SP]
\* trimmed is text without the whitespace around it
IsTrimOf(trimmed, text) ==
    /\ \E a \in 0..Len(text) : \E b \in 0..Len(text) :
            text = Spaces(a) \o trimmed \o Spaces(b)
    /\ trimmed # <<>> => (trimmed[1] # SP /\ trimmed[Len(trimmed)] # SP)
FirstPipe(text, i) ==
    /\ i \in 1..Len(text)
    /\ text[i] = PIPE
    /\ \A j \in 1..(i - 1) : text[j] # PIPE

\* C15: a message is split at its first delimiter only: the narrative
\* forwarded is the text before it and the maxim forwarded the whole
\* remainder after it, further delimiters included, each with nothing but
\* the whitespace around it removed.
C15_SplitAtFirstDelimiter ==
    Forwarded =>
        \E i \in 1..Len(Body) :
            /\ FirstPipe(Body, i)
            /\ IsTrimOf(Complaint.narrative, SubSeq(Body, 1, i - 1))
            /\ IsTrimOf(Complaint.maxim_extraction, SubSeq(Body, i + 1, Len(Body)))

\* a message with a space before its first delimiter and a second delimiter
C15_Witness ==
    /\ Forwarded
    /\ Body = <<"denied", SP, PIPE, PIPE>>
    /\ Complaint.narrative = <<"denied">>
    /\ Complaint.maxim_extraction = <<PIPE>>

InRequest == webhook.pc \in {"escalating", "generating", "responded"}
HasPipe(text) == \E i \in 1..Len(text) : text[i] = PIPE
StepSucceeded(n) == Len(Returns) >= n /\ ~Returns[n].raised
StepFailed(n) == Len(Returns) >= n /\ Returns[n].raised

\* C16: the two pipeline calls of a request are sequential: the first call
\* is /escalate-to-ethics; /generate-koers-survey is called only once that
\* call has returned successfully, with exactly the report it returned as
\* source_data; when the first call fails the second is never made.
C16_SequentialPipeline ==
    InRequest =>
        /\ Len(Calls) <= 2
        /\ Len(Calls) >= 1 => Calls[1].endpoint = "/escalate-to-ethics"
        /\ Len(Calls) = 2 =>
                /\ Calls[2].endpoint = "/generate-koers-survey"
                /\ StepSucceeded(1)
                /\ Calls[2].request.source_data = Returns[1].result
        /\ StepFailed(1) => Len(Calls) = 1

\* both calls made and answered, the second with the first one's report
C16_Witness ==
    /\ WebhookResponded
    /\ Len(Calls) = 2
    /\ StepSucceeded(2)
    /\ Calls[2].request.source_data["humanity_formula_test"].val.verdict = "VIOLATION"

\* the text of a message part without the whitespace around it
Trimmed(part) ==
    CHOOSE t \in {SubSeq(part, a, b) : a \in 1..(Len(part) + 1), b \in 0..Len(part)} :
        IsTrimOf(t, part)
NarrativePart == Trimmed(SubSeq(Body, 1, (CHOOSE i \in 1..Len(Body) : FirstPipe(Body, i)) - 1))
MaximPart ==
    Trimmed(SubSeq(Body, (CHOOSE i \in 1..Len(Body) : FirstPipe(Body, i)) + 1, Len(Body)))
TooLong == str_len(NarrativePart) > 2000 \/ str_len(MaximPart) > 500
SenderAcceptable == "from" \in DOMAIN Payload => Payload["from"] # ""

\* a payload the handler takes up: a text body with a delimiter, parts
\* within the length limits and a sender that is absent or not empty
WellFormedPayload ==
    /\ HasTextBody
    /\ HasPipe(Body)
    /\ ~TooLong
    /\ SenderAcceptable

\* C17: no error is fatal: whatever failed before, a well-formed request is
\* taken up, and when its two pipeline calls succeed it is answered with
\* HTTP 200 and status "received" carrying the two reports.
C17_NoErrorIsFatal ==
    InRequest =>
        /\ WellFormedPayload <=> Forwarded
        /\ (WebhookResponded /\ StepSucceeded(2)) =>
                /\ WebhookResponse.status_code = 200
                /\ WebhookResponse.status = "received"
                /\ WebhookResponse.workflow_result.ethical_analysis = Returns[1].result
                /\ WebhookResponse.workflow_result.deployment_report = Returns[2].result

\* a request answered 200 after a request that failed in the pipeline
C17_Witness ==
    /\ WebhookResponded
    /\ webhook.handled >= 1
    /\ webhook.errors.integration >= 1
    /\ StepSucceeded(2)
    /\ WebhookResponse.status_code = 200

BodyRefused ==
    \/ "body" \notin DOMAIN Payload
    \/ HasTextBody /\ (Body = <<>> \/ ~HasPipe(Body))

\* C19: a request whose body field is missing, is empty or contains no
\* delimiter is answered with HTTP 400 and status "error", and no pipeline
\* call is made for it.
C19_BadBodyRefused ==
    (InRequest /\ BodyRefused) =>
        /\ WebhookResponded
        /\ WebhookResponse.status_code = 400
        /\ WebhookResponse.status = "error"
        /\ Calls = <<>>

\* a body of words without delimiter answered 400
C19_Witness ==
    /\ WebhookResponded
    /\ HasTextBody
    /\ Body = <<"denied", SP, "optional">>
    /\ WebhookResponse.error_code = "PARSE_ERROR"
    /\ Calls = <<>>

EmptyPart ==
    /\ HasTextBody
    /\ HasPipe(Body)
    /\ \E i \in 1..Len(Body) :
            /\ FirstPipe(Body, i)
            /\ \/ IsTrimOf(<<>>, SubSeq(Body, 1, i - 1))
               \/ IsTrimOf(<<>>, SubSeq(Body, i + 1, Len(Body)))

\* C20: a message whose narrative or maxim is empty after trimming is
\* rejected with a 4xx response of status "error" and never forwarded to the
\* pipeline.
C20_EmptyPartRejected ==
    (InRequest /\ EmptyPart) =>
        /\ Calls = <<>>
        /\ WebhookResponded
        /\ WebhookResponse.status_code \in 400..499
        /\ WebhookResponse.status = "error"

Rejected400 == WebhookResponded /\ WebhookResponse.status_code = 400 /\ Calls = <<>>

C21_WitnessRejected ==
    /\ InRequest
    /\ HasTextBody
    /\ Body = <<"x*1999", "s", PIPE, "x*499", "s", "s">>
    /\ Rejected400

Served == webhook.request.served
Sender == IF "from" \in DOMAIN Payload THEN Payload["from"] ELSE "unknown_user"

\* C22: both pipeline calls of a request carry as workflow_id the payload's
\* `from` value, or "unknown_user" when the payload has none, and every
\* result a Union Action endpoint returns carries the workflow_id of the
\* request it answers.
C22_WorkflowIdKept ==
    InRequest =>
        /\ \A k \in 1..Len(Calls) : Calls[k].request.workflow_id = Sender
        /\ \A k \in 1..Len(Served) :
                Served[k].status_code = 200 =>
                    Served[k].workflow_id = Calls[k].request.workflow_id

\* a request of a given sender with both steps answered
C22_Witness ==
    /\ WebhookResponded
    /\ "from" \in DOMAIN Payload
    /\ Len(Calls) = 2
    /\ Len(Served) = 2
    /\ Served[2].status_code = 200
    /\ Served[2].workflow_id = "447700900123"

\* a request without sender with both steps answered
C22_WitnessUnknownUser ==
    /\ WebhookResponded
    /\ "from" \notin DOMAIN Payload
    /\ Len(Served) = 2
    /\ Served[1].status_code = 200
    /\ Served[1].workflow_id = "unknown_user"

(***************************************************************************)
(* The health-check cache (SpecCache).                                     *)
(***************************************************************************)
JustGot == health.pc = "cache" /\ health.last_op = "get"
SetBefore(key) == key \in DOMAIN health.last_set
SinceSet(key) == health.now - health.last_set[key].timestamp

\* C23: get(key) returns the value most recently set for the key if and
\* only if fewer than ttl_seconds have elapsed since that set, and None
\* otherwise; what was set or has expired under another key plays no part.
C23_CacheGet ==
    JustGot =>
        LET key == health.got.key
        IN  IF SetBefore(key) /\ SinceSet(key) < 10
            THEN health.got.value = health.last_set[key].value
            ELSE health.got.value = None

\* a get of a key 9 seconds after its set returns the value while the
\* other key, set earlier, has expired
C23_Witness ==
    /\ JustGot
    /\ health.got.value = "ok"
    /\ SinceSet(health.got.key) = 9
    /\ \E other \in CacheKeys \ {health.got.key} :
            /\ SetBefore(other)
            /\ SinceSet(other) >= 10
            /\ health.last_set[other].value = "error"

\* a get exactly ttl_seconds after the set returns None
C23_WitnessExpired ==
    /\ JustGot
    /\ health.got.value = None
    /\ SetBefore(health.got.key)
    /\ SinceSet(health.got.key) = 10

(***************************************************************************)
(* The /health endpoint (SpecHealth).                                      *)
(***************************************************************************)
HealthAnswered == health.pc = "health" /\ health.last_op = "health_check"
HealthAnswer == health.answer.response
DependencyStatuses ==
    {HealthAnswer.dependencies.union_action_api.status,
     HealthAnswer.dependencies.memory.status}
\* tracked errors of the preceding 300 seconds
ErrorsInWindow ==
    Cardinality({i \in 1..Len(tracker.recent_errors) :
                    health.now - tracker.recent_errors[i].timestamp < 300})
\* the status the dependency checks of the answer aggregate to
Aggregated ==
    IF DependencyStatuses \cap {"error", "timeout"} = {} THEN "ok"
    ELSE IF DependencyStatuses = {"error"} THEN "down"
    ELSE "degraded"

\* C24: when /health reports overall status "ok", every dependency check
\* of the same response has status "ok" or "warning".
C24_OkMeansDependenciesOk ==
    (HealthAnswered /\ HealthAnswer.status = "ok") =>
        DependencyStatuses \subseteq {"ok", "warning"}

\* C27 as stated: any /health request made while more than 10 tracked
\* errors fall within the preceding 300 seconds reports "degraded", and one
\* made when at most 10 do reports the status aggregated from the
\* dependency checks.
C27_DegradedByRecentErrors ==
    HealthAnswered =>
        IF ErrorsInWindow > 10
        THEN HealthAnswer.status = "degraded"
        ELSE HealthAnswer.status = Aggregated

\* C27: a /health request that is not answered from the 10-second cache
\* reports "degraded" while more than 10 tracked errors fall within the
\* preceding 300 seconds and the status aggregated from the dependency
\* checks when at most 10 do; a request answered from the cache repeats
\* the response of the request that filled it.
C27_DegradedUnlessCached ==
    HealthAnswered =>
        /\ ~health.answer.from_cache =>
                IF ErrorsInWindow > 10
                THEN HealthAnswer.status = "degraded"
                ELSE HealthAnswer.status = Aggregated
        /\ health.answer.from_cache =>
                /\ "health_check" \in DOMAIN health.cache
                /\ HealthAnswer = health.cache["health_check"].value
                /\ health.now - health.cache["health_check"].timestamp < 10

\* eleven errors within the window turn a response whose checks are fine
\* into "degraded", 299 seconds after the first of them
C27_Witness ==
    /\ HealthAnswered
    /\ ~health.answer.from_cache
    /\ health.now = 299
    /\ ErrorsInWindow = 11
    /\ tracker.recent_errors[1].timestamp = 0
    /\ Aggregated = "ok"
    /\ HealthAnswer.status = "degraded"

(***************************************************************************)
(* The two steps composed (SpecWebhook).                                   *)
(***************************************************************************)
RecognizedKeys ==
    {"universalizability_test", "humanity_formula_test", "autonomy_test",
     "procedural_justice_test"}
HasVerdict(value) == value.kind = "dict" /\ "verdict" \in DOMAIN value.val

\* C25: every report /escalate-to-ethics returns is passed unchanged to
\* /generate-koers-survey and accepted there: it has a recognized category
\* with a well-formed verdict, none of its recognized categories is
\* malformed, and whenever the second step is served the module selection
\* completes and the deployer is called with the "core" module first.
C25_StepsCompose ==
    (InRequest /\ StepSucceeded(1)) =>
        LET report == Returns[1].result
        IN  /\ \E key \in RecognizedKeys \cap DOMAIN report : HasVerdict(report[key])
            /\ \A key \in RecognizedKeys \cap DOMAIN report : HasVerdict(report[key])
            /\ Len(Calls) = 2 /\ Calls[2].request.source_data = report
            /\ Len(Served) = 2 =>
                    /\ Served[2].status_code # 422
                    /\ Len(webhook.request.deploy_calls) = 1
                    /\ webhook.request.deploy_calls[1][1] = "core"

\* a report with a violation served by the second step, whose deployer
\* then failed
C25_Witness ==
    /\ WebhookResponded
    /\ StepSucceeded(1)
    /\ Len(Served) = 2
    /\ Served[2].status_code = 500
    /\ Len(webhook.request.deploy_calls[1]) >= 2

(***************************************************************************)
(* Errors tracked by the webhook handler (SpecWebhook).                    *)
(***************************************************************************)
TotalTracked(errors) ==
    errors.validation + errors.parsing + errors.integration + errors.unknown

\* C26: a webhook request that fails raises the tracker's total by exactly
\* one, in exactly one category, and a request that succeeds leaves every
\* counter as it was.
C26_OneErrorPerFailedRequest ==
    [][IF webhook.pc # "responded" /\ webhook'.pc = "responded"
          /\ webhook'.request.response.val.status_code # 200
       THEN /\ TotalTracked(webhook'.errors) = TotalTracked(webhook.errors) + 1
            /\ \E category \in DOMAIN webhook.errors :
                    webhook'.errors = [webhook.errors EXCEPT ![category] = @ + 1]
       ELSE webhook'.errors = webhook.errors]_vars

(***************************************************************************)
(* The error tracker (SpecTracker).                                        *)
(***************************************************************************)
TrackedCount(category) ==
    Cardinality({i \in 1..Len(tracker.tracked) : tracker.tracked[i].category = category})

\* C28: the list of recent errors never holds more than 100 entries; it is
\* the most recent tracked errors since the last reset in the order they
\* occurred; the counters add up to the number of track_error calls since
\* the last reset, each call counted under its category or, when the
\* category is not one of the tracker's, under "unknown".
C28_TrackerBounded ==
    LET recent == tracker.recent_errors
        tracked == tracker.tracked
    IN  /\ Len(recent) <= 100
        /\ Len(recent) = IF Len(tracked) <= 100 THEN Len(tracked) ELSE 100
        /\ \A i \in 1..Len(recent) : recent[i] = tracked[Len(tracked) - Len(recent) + i]
        /\ TotalTracked(tracker.errors) = Len(tracked)
        /\ tracker.errors.validation = TrackedCount("validation")
        /\ tracker.errors.integration = TrackedCount("integration")
        /\ tracker.errors.unknown = TrackedCount("timeout")
        /\ tracker.errors.parsing = 0

\* after a reset, more than 100 calls of which some had a category the
\* tracker does not know
C28_Witness ==
    /\ tracker.resets = 1
    /\ Len(tracker.tracked) > 100
    /\ Len(tracker.recent_errors) = 100
    /\ tracker.errors.unknown = 1
    /\ tracker.errors.validation > 0
    /\ tracker.recent_errors[1].category # tracker.tracked[1].category

(***************************************************************************)
(* The retry loop of the Enjin client (SpecRetry).                         *)
(***************************************************************************)
RetryEnded == enjin.pc \in {"returned", "raised"}
Executions == Len(enjin.executed)
AllTransportErrors(n) == \A i \in 1..n : enjin.executed[i] \in TransportErrors

\* C29: _execute_with_retry ends by returning a query result or by raising.
\* It executes the query at most retry_attempts times; every execution but
\* the last ended in a transport error and was followed by a sleep of
\* retry_delay * 2^attempt; a transport error of the last of retry_attempts
\* executions is re-raised and any other error is raised at once.
C29_RetryContract ==
    /\ Executions <= enjin.retry_attempts
    /\ AllTransportErrors(Executions - 1)
    /\ \A i \in 1..Len(enjin.slept) : enjin.slept[i] = enjin.retry_delay * (2 ^ (i - 1))
    /\ enjin.pc = "returned" =>
            /\ enjin.outcome = "result"
            /\ enjin.executed[Executions] = "result"
            /\ Len(enjin.slept) = Executions - 1
    /\ enjin.pc = "raised" =>
            /\ enjin.outcome = enjin.executed[Executions]
            /\ enjin.outcome \in TransportErrors => Executions = enjin.retry_attempts
            /\ Len(enjin.slept) = Executions - 1
    /\ enjin.pc = "sleeping" =>
            /\ AllTransportErrors(Executions)
            /\ Len(enjin.slept) = Executions
            /\ Executions < enjin.retry_attempts

\* the same for a client whose retry_attempts is at least 1
C29_RetryContractWhenAttempting ==
    enjin.retry_attempts >= 1 => C29_RetryContract

\* two transport errors slept off and the third execution returning
C29_Retried ==
    /\ enjin.pc = "returned"
    /\ enjin.retry_attempts = 3
    /\ enjin.retry_delay = 10
    /\ enjin.slept = <<10, 20>>
    /\ enjin.outcome = "result"

(***************************************************************************)
(* The ChatopsAgent's start() and stop() (SpecChatops).                    *)
(***************************************************************************)
StartEnded == chatops.pc \in {"start_ended", "exited"}

====
